---- MODULE Spec2Model ----
(***************************************************************************)
(* State-machine model of tauri-plugin-liquid-glass: the glass-view        *)
(* registry (glass_effect/registry.rs), the main-thread dispatcher         *)
(* (glass_effect/utils.rs), the two glass backends (glass_effect/          *)
(* backend.rs) and the create / update / remove operations                 *)
(* (glass_effect/operations.rs, glass_effect/mod.rs).                      *)
(*                                                                         *)
(* Native views are numbered in allocation order.  The code never releases *)
(* the reference it obtains from alloc/initWithFrame, so a view object is  *)
(* never deallocated and its address is never handed out twice.            *)
(***************************************************************************)
EXTENDS Integers, Sequences, FiniteSets, TLC

\* ------------------------------------------------------------------------
\* Bounds
\* ------------------------------------------------------------------------

\* total number of public calls issued in one behaviour
MaxCalls == 4

\* number of public calls that may be under way at the same time
MaxInFlight == 2

\* total number of public calls issued in one behaviour of the fair specification
MaxFairCalls == 3

\* longest run of two-digit groups in the tint strings given to color_from_hex
MaxHexPairs == 4

\* calls made in the specification of the two implementations
MaxEnvCalls == 3

\* calls made in the specification with a changing capability
MaxCapCalls == 3

\* set_effect calls of the specification of racing tints
MaxTintCalls == 3

\* handles given to the registry calls
MaxRegHandles == 2

\* views added through add_glass_effect
MaxViews == 2

\* calls of the per-view commands
MaxViewCalls == 3

\* ------------------------------------------------------------------------
\* Threads, window labels, configuration inputs
\* ------------------------------------------------------------------------

MainThread == "ui"

Threads == {"ui", "w1", "w2"}

Labels == {"main", "aux"}

\* Option<ViewHandle>::None and the nil object pointer
NoHandle == 0

\* a tint string is a sequence of one-character strings
RedHalf == <<"#", "F", "F", "0", "0", "0", "0", "8", "0">>

NotAColor == <<"n", "o", "-", "c", "o", "l", "o", "r">>

\* Option<String>: << >> is None, << s >> is Some(s)
TintInputs == {<< >>, <<NotAColor>>, <<RedHalf>>}

CornerRadii == {0, 12}

\* GlassMaterialVariant as i64: Regular = 0, Sidebar = 16
Variants == {0, 16}

Configs == [enabled : BOOLEAN, corner_radius : CornerRadii, tint_color : TintInputs, variant : Variants]

\* LiquidGlassConfig::default() with enabled = false: the other fields are not read on removal
DisabledConfig == [enabled |-> FALSE, corner_radius |-> 0, tint_color |-> << >>, variant |-> 0]

DefaultConfig == [enabled |-> TRUE, corner_radius |-> 0, tint_color |-> << >>, variant |-> 0]

EnabledConfigs == {c \in Configs : c.enabled}

\* the inputs of set_effect
CallConfigs == EnabledConfigs \cup {DisabledConfig}

\* ------------------------------------------------------------------------
\* color_from_hex (glass_effect/utils.rs)
\* ------------------------------------------------------------------------

HexDigitsLower == <<"0", "1", "2", "3", "4", "5", "6", "7", "8", "9", "a", "b", "c", "d", "e", "f">>

HexDigitsUpper == <<"0", "1", "2", "3", "4", "5", "6", "7", "8", "9", "A", "B", "C", "D", "E", "F">>

IsHexDigit(c) == \E i \in 1..16 : HexDigitsLower[i] = c \/ HexDigitsUpper[i] = c

\* char::to_digit(16)
HexValue(c) == (CHOOSE i \in 1..16 : HexDigitsLower[i] = c \/ HexDigitsUpper[i] = c) - 1

IsWhitespace(c) == c \in {" ", "\t", "\n"}

RECURSIVE TrimStart(_)
TrimStart(s) == IF s # << >> /\ IsWhitespace(Head(s)) THEN TrimStart(Tail(s)) ELSE s

RECURSIVE TrimEnd(_)
TrimEnd(s) == IF s # << >> /\ IsWhitespace(s[Len(s)]) THEN TrimEnd(SubSeq(s, 1, Len(s) - 1)) ELSE s

\* str::trim
Trim(s) == TrimEnd(TrimStart(s))

\* str::trim_start_matches('#'): removes every leading '#'
RECURSIVE TrimStartMatchesHash(_)
TrimStartMatchesHash(s) == IF s # << >> /\ Head(s) = "#" THEN TrimStartMatchesHash(Tail(s)) ELSE s

\* the digits u32::from_str_radix reads: one leading '+' is accepted
RadixDigits(s) == IF Len(s) > 1 /\ Head(s) = "+" THEN Tail(s) ELSE s

\* a u32 is kept as its two 16-bit halves <<high, low>>; a third component flags overflow
RadixStep(acc, digit) ==
    LET low == acc[2] * 16 + digit
        high == acc[1] * 16 + (low \div 65536)
    IN <<high % 65536, low % 65536, acc[3] \/ high >= 65536>>

RECURSIVE RadixFold(_, _)
RadixFold(acc, s) == IF s = << >> THEN acc ELSE RadixFold(RadixStep(acc, HexValue(Head(s))), Tail(s))

\* u32::from_str_radix(hex, 16).ok(): << >> on a parse error, << value >> otherwise
FromStrRadix16(s) ==
    LET d == RadixDigits(s)
    IN IF s = << >> \/ \E i \in 1..Len(d) : ~IsHexDigit(d[i])
       THEN << >>
       ELSE IF RadixFold(<<0, 0, FALSE>>, d)[3] THEN << >> ELSE <<RadixFold(<<0, 0, FALSE>>, d)>>

\* a channel read from the lowest byte whatever the shift
Channel_LowByte(rgba, shift) == rgba[2] % 256

\* (value >> shift) & 0xFF for shift in {0, 8, 16, 24}
Channel(rgba, shift) ==
    IF shift >= 16 THEN (rgba[1] \div (2 ^ (shift - 16))) % 256 ELSE (rgba[2] \div (2 ^ shift)) % 256

\* a parser that falls back to opaque black for whatever it is given
color_from_hex_Black(hex) == << <<0, 0, 0, 255>> >>

\* color_from_hex: << >> is None, << <<r, g, b, a>> >> is Some(colour), channels in 0..255 (over 255)
color_from_hex(hex) ==
    LET h == TrimStartMatchesHash(Trim(hex))
    IN IF Len(h) # 6 /\ Len(h) # 8
       THEN << >>
       ELSE LET p == FromStrRadix16(h)
            IN IF p = << >>
               THEN << >>
               ELSE IF Len(h) = 6
                    THEN << <<Channel(p[1], 16), Channel(p[1], 8), Channel(p[1], 0), 255>> >>
                    ELSE << <<Channel(p[1], 24), Channel(p[1], 16), Channel(p[1], 8), Channel(p[1], 0)>> >>

\* ------------------------------------------------------------------------
\* HashMap<String, GlassViewEntry> (glass_effect/registry.rs): a set of entries
\* ------------------------------------------------------------------------

GlassViewEntry(label, glass_view, tint_overlay) ==
    [label |-> label, glass_view |-> glass_view, tint_overlay |-> tint_overlay]

\* HashMap::contains_key
\* a lookup that never finds the key
MapContainsKey_Never(m, label) == FALSE

MapContainsKey(m, label) == \E e \in m : e.label = label

\* an insert that adds the entry next to the one already stored under the key
MapInsert_Duplicate(m, label, glass_view, tint_overlay) ==
    m \cup {GlassViewEntry(label, glass_view, tint_overlay)}

\* HashMap::insert replaces the entry stored under the key
MapInsert(m, label, glass_view, tint_overlay) ==
    {e \in m : e.label # label} \cup {GlassViewEntry(label, glass_view, tint_overlay)}

\* a get that hands out the glass view without the overlay
MapGet_NoOverlay(m, label) ==
    IF MapContainsKey(m, label)
    THEN LET e == CHOOSE x \in m : x.label = label IN << <<e.glass_view, NoHandle>> >>
    ELSE << >>

\* HashMap::get(..).map(|e| (e.glass_view, e.tint_overlay)): << >> is None
MapGet(m, label) ==
    IF MapContainsKey(m, label)
    THEN LET e == CHOOSE x \in m : x.label = label IN << <<e.glass_view, e.tint_overlay>> >>
    ELSE << >>

\* a remove that leaves the entry in the map
MapRemove_Keep(m, label) == m

\* HashMap::remove
MapRemove(m, label) == {e \in m : e.label # label}

\* an update that stores a fresh entry holding only the overlay
MapUpdateTint_Replace(m, label, tint) ==
    {e \in m : e.label # label} \cup {GlassViewEntry(label, NoHandle, tint)}

\* if let Some(entry) = views.get_mut(label) { entry.tint_overlay = tint }
MapUpdateTint(m, label, tint) ==
    {IF e.label = label THEN [e EXCEPT !.tint_overlay = tint] ELSE e : e \in m}


\* ------------------------------------------------------------------------
\* State
\* ------------------------------------------------------------------------

VARIABLES
    views,       \* GlassViewRegistry.views: the HashMap behind the Mutex
    lockOwner,   \* the thread holding the Mutex guard, or "none"
    poisoned,    \* the Mutex poison flag
    nsviews,     \* the native views allocated so far, indexed by handle
    subviews,    \* per window label: the content view's subviews, bottom-most first
    mainQueue,   \* closures submitted with Queue::main().exec_async, oldest first
    exec,        \* per thread: the closure it is executing
    chan,        \* per thread: the mpsc channel (or return slot) of its run_on_main_sync call
    th,          \* per thread: position and locals of its current public call
    glassAvail,  \* Class::get("NSGlassEffectView").is_some()
    ref,         \* the reference map the registry is compared with, and what its last call returned
    crateModule, \* the implementation the build routes to: "glass_effect" (glass_effect/) or "macos" (macos/glass_effect.rs)
    macos26,     \* is_macos_26_or_later()
    glassViews,  \* the views of the per-view commands (add_glass_effect ...): records id, glass_view, tint_overlay
    nextViewId,  \* the id the next add_glass_effect hands out
    freed,       \* the native views that no longer exist (their window was torn down)
    selectors,   \* the variant setters an NSGlassEffectView responds to
    window,      \* per window label: what the host can resolve of the native window
    calls,       \* number of public calls issued so far
    solo,        \* the thread whose call started with every thread idle and has run alone since
    pre,         \* registry and view tree as they were when the solo call started
    popped,      \* handles that remove_glass_effect has taken out of the registry
    inserted,    \* glass handles in the order registry.insert stored them
    last,        \* the call that returned most recently, if it ran alone and no call has started since
    run          \* per window label: the enable calls made one after another since the label had no entry

vars == <<views, lockOwner, poisoned, nsviews, subviews, mainQueue, exec, chan, th,
          glassAvail, crateModule, ref, macos26, glassViews, nextViewId, freed, selectors, window, calls, solo, pre, popped, inserted, last, run>>

\* the reference map when no registry call has been made: no key has an entry (<< >> is None)
NoRef == [map |-> [l \in {"main", "aux"} |-> << >>], op |-> "none", expected |-> << >>, returned |-> << >>]

\* the existing content of a window's root view (the webview)
WebView == -10

\* the root content view of the window with the given label
ContentView(label) == IF label = "main" THEN -1 ELSE -2

\* the NSWindow of the window with the given label (window.ns_window())
NSWindow(label) == IF label = "main" THEN -3 ELSE -4

NoTask == [owner |-> "none", kind |-> "none", step |-> "none", glass |-> NoHandle, tint |-> NoHandle]

IdleThread ==
    [pc |-> "idle", label |-> "none", config |-> DisabledConfig, glass |-> NoHandle, tint |-> NoHandle,
     path |-> "none", ran |-> FALSE, got |-> << >>, done |-> << >>]

NoLast == [solo |-> FALSE, label |-> "none", enabled |-> FALSE, path |-> "none", status |-> "none",
           glass |-> NoHandle, tint |-> NoHandle, ran |-> FALSE, config |-> DisabledConfig]

FreshRun ==
    [broken |-> FALSE, paths |-> << >>, results |-> << >>, ok |-> TRUE, first |-> NoHandle,
     afterRemove |-> FALSE, base |-> 0]

BrokenRun == [FreshRun EXCEPT !.broken = TRUE]

\* the effect views (not overlays) created so far for a window label
GlassViewsOf(ns, label) == {v \in 1..Len(ns) : ns[v].window = label /\ ns[v].class # "NSView"}

NoSnapshot == [views |-> {}, nsviews |-> << >>, subviews |-> [l \in Labels |-> << >>], glassViews |-> {}]

Snapshot == [views |-> views, nsviews |-> nsviews, subviews |-> subviews, glassViews |-> glassViews]

WindowStates == {"ok", "no_ns_window", "no_content_view"}

AllIdle == \A t \in Threads : th[t].pc = "idle"

\* ------------------------------------------------------------------------
\* Native views (AppKit objects as the code uses them)
\* ------------------------------------------------------------------------

\* [[cls alloc] initWithFrame: bounds]
NewView(ns, class, label) ==
    Append(ns, [class |-> class, superview |-> NoHandle, wantsLayer |-> FALSE, cornerRadius |-> 0,
                masksToBounds |-> FALSE, tintColor |-> << >>, backgroundColor |-> << >>,
                variant |-> -1, setter |-> << >>, lastOp |-> "createView", window |-> label])

RECURSIVE Without(_, _)
Without(s, v) ==
    IF s = << >> THEN << >>
    ELSE IF Head(s) = v THEN Without(Tail(s), v) ELSE <<Head(s)>> \o Without(Tail(s), v)

\* [view removeFromSuperview]: the view leaves its superview's subviews
DetachedViews(ns, v) == [ns EXCEPT ![v].superview = NoHandle]

\* a removal that leaves the view in the subviews of its superview
DetachedSubviews_Keep(sv, ns, v) == sv

\* [view removeFromSuperview]: the subviews of the content view that held the view lose it
DetachedSubviews(sv, ns, v) ==
    [l \in Labels |-> IF ns[v].superview = ContentView(l) THEN Without(sv[l], v) ELSE sv[l]]

\* glass_class_available (glass_effect/utils.rs)
glass_class_available == glassAvail

\* is_macos_26_or_later(): the version check of macos/utils.rs
is_macos_26_or_later == macos26

\* the closure of is_glass_supported: glass_effect/mod.rs asks for the class only,
\* macos/glass_effect.rs for the version and the class
is_glass_supported ==
    IF crateModule = "macos" THEN is_macos_26_or_later /\ glass_class_available ELSE glass_class_available

\* a selection that always takes the native backend
get_backend_Native == "NativeGlassBackend"

\* get_backend (glass_effect/backend.rs)
get_backend == IF glass_class_available THEN "NativeGlassBackend" ELSE "VisualEffectBackend"

\* GlassBackend::create_view: << >> is Err(ViewCreationFailed), << class >> the class instantiated
create_view(backend) ==
    IF backend = "NativeGlassBackend"
    THEN IF glassAvail THEN <<"NSGlassEffectView">> ELSE << >>
    ELSE <<"NSVisualEffectView">>

\* [obj respondsToSelector: sel] in try_send_i64: selectors holds the variant setters that
\* NSGlassEffectView implements on the running system; the AppKit classes NSVisualEffectView and
\* NSView have no variant property
responds_to_selector(ns, view, sel) == ns[view].class = "NSGlassEffectView" /\ sel \in selectors

\* a view that never responds to setTintColor:
responds_to_setTintColor_Never(ns, view) == FALSE

\* [glass respondsToSelector: sel!(setTintColor:)] in apply_tint_color and clear_tint_color of
\* macos/glass_effect.rs: NSGlassEffectView declares tintColor, NSVisualEffectView does not
responds_to_setTintColor(ns, view) == ns[view].class = "NSGlassEffectView"

\* the branch taken for the tint: glass_effect/operations.rs asks get_backend (is the class
\* available), macos/glass_effect.rs asks the view whether it responds to setTintColor:
tint_backend(ns, glass) ==
    IF crateModule = "macos"
    THEN IF responds_to_setTintColor(ns, glass) THEN "NativeGlassBackend" ELSE "VisualEffectBackend"
    ELSE get_backend

\* try_send_i64: the messages sent, one if the object responds to the selector
try_send_i64(ns, view, sel) == IF responds_to_selector(ns, view, sel) THEN <<sel>> ELSE << >>

\* a set_view_property that tries the public setter first
set_view_property_PublicFirst(ns, view) ==
    IF try_send_i64(ns, view, "setVariant:") # << >>
    THEN try_send_i64(ns, view, "setVariant:")
    ELSE try_send_i64(ns, view, "set_variant:")

\* set_view_property for key "variant": the setters invoked, in order; the private one, and the
\* public one only if the view does not respond to the private one
set_view_property(ns, view) ==
    IF try_send_i64(ns, view, "set_variant:") # << >>
    THEN try_send_i64(ns, view, "set_variant:")
    ELSE try_send_i64(ns, view, "setVariant:")

\* a fallback backend that sends the variant setter too
set_variant_AnyBackend(backend, ns, glass, variant) ==
    [ns EXCEPT ![glass].variant = variant, ![glass].lastOp = "setVariant"]

\* GlassBackend::set_variant
set_variant(backend, ns, glass, variant) ==
    IF backend = "NativeGlassBackend" /\ set_view_property(ns, glass) # << >>
    THEN [ns EXCEPT ![glass].variant = variant, ![glass].setter = set_view_property(ns, glass),
                    ![glass].lastOp = "setVariant"]
    ELSE [ns EXCEPT ![glass].lastOp = "setVariant"]

\* the corner-radius part of apply_glass_config: setWantsLayer, setCornerRadius, setMasksToBounds
apply_corner_radius(ns, glass, radius) ==
    [ns EXCEPT ![glass].wantsLayer = TRUE, ![glass].cornerRadius = radius,
               ![glass].masksToBounds = TRUE, ![glass].lastOp = "cornerRadius"]

\* an apply_tint that copies the corner radius only onto an overlay it has just created
apply_tint_views_NoMirror(backend, ns, glass, color, existing_overlay) ==
    IF backend = "NativeGlassBackend"
    THEN [ns EXCEPT ![glass].tintColor = color, ![glass].lastOp = "applyTint"]
    ELSE IF existing_overlay # NoHandle
         THEN [ns EXCEPT ![existing_overlay].backgroundColor = color, ![glass].lastOp = "applyTint"]
         ELSE LET n == NewView(ns, "NSView", ns[glass].window)
              IN [n EXCEPT ![Len(n)].wantsLayer = TRUE, ![Len(n)].superview = glass,
                           ![Len(n)].backgroundColor = color,
                           ![Len(n)].cornerRadius = n[glass].cornerRadius,
                           ![Len(n)].masksToBounds = TRUE,
                           ![glass].lastOp = "applyTint"]

\* GlassBackend::apply_tint: the view state afterwards
apply_tint_views(backend, ns, glass, color, existing_overlay) ==
    IF backend = "NativeGlassBackend"
    THEN [ns EXCEPT ![glass].tintColor = color, ![glass].lastOp = "applyTint"]
    ELSE LET withOverlay ==
                 IF existing_overlay # NoHandle THEN ns
                 ELSE LET n == NewView(ns, "NSView", ns[glass].window)
                      IN [n EXCEPT ![Len(n)].wantsLayer = TRUE, ![Len(n)].superview = glass]
             overlay == IF existing_overlay # NoHandle THEN existing_overlay ELSE Len(withOverlay)
         IN [withOverlay EXCEPT ![overlay].backgroundColor = color,
                                ![overlay].cornerRadius = withOverlay[glass].cornerRadius,
                                ![overlay].masksToBounds = TRUE,
                                ![glass].lastOp = "applyTint"]

\* GlassBackend::apply_tint: the overlay handle returned
apply_tint_overlay(backend, ns, existing_overlay) ==
    IF backend = "NativeGlassBackend" THEN NoHandle
    ELSE IF existing_overlay # NoHandle THEN existing_overlay ELSE Len(ns) + 1

\* a fallback clear_tint that leaves the overlay where it is
clear_tint_NoDetach(backend, ns, glass, existing_overlay) ==
    IF backend = "NativeGlassBackend"
    THEN [ns EXCEPT ![glass].tintColor = << >>, ![glass].lastOp = "clearTint"]
    ELSE [ns EXCEPT ![glass].lastOp = "clearTint"]

\* GlassBackend::clear_tint
clear_tint(backend, ns, glass, existing_overlay) ==
    IF backend = "NativeGlassBackend"
    THEN [ns EXCEPT ![glass].tintColor = << >>, ![glass].lastOp = "clearTint"]
    ELSE IF existing_overlay # NoHandle
         THEN [DetachedViews(ns, existing_overlay) EXCEPT ![glass].lastOp = "clearTint"]
         ELSE [ns EXCEPT ![glass].lastOp = "clearTint"]

\* the tint part of apply_glass_config: parse the colour, then apply or clear
apply_tint_config(ns, glass, config, existing_overlay) ==
    LET color == IF config.tint_color = << >> THEN << >> ELSE color_from_hex(config.tint_color[1])
    IN IF color # << >>
       THEN apply_tint_views(tint_backend(ns, glass), ns, glass, color[1], existing_overlay)
       ELSE clear_tint(tint_backend(ns, glass), ns, glass, existing_overlay)

\* an apply_glass_config that hands back the overlay it was given when it clears the tint
tint_overlay_of_Keep(ns, glass, config, existing_overlay) ==
    LET color == IF config.tint_color = << >> THEN << >> ELSE color_from_hex(config.tint_color[1])
    IN IF color # << >> THEN apply_tint_overlay(tint_backend(ns, glass), ns, existing_overlay) ELSE existing_overlay

\* the overlay handle apply_glass_config returns
tint_overlay_of(ns, glass, config, existing_overlay) ==
    LET color == IF config.tint_color = << >> THEN << >> ELSE color_from_hex(config.tint_color[1])
    IN IF color # << >> THEN apply_tint_overlay(tint_backend(ns, glass), ns, existing_overlay) ELSE NoHandle

\* [content_view addSubview: glass positioned: NSWindowBelow relativeTo: nil]
attach_below(sv, label, glass) == [sv EXCEPT ![label] = <<glass>> \o sv[label]]


\* ------------------------------------------------------------------------
\* Mutex, dispatcher and bookkeeping helpers
\* ------------------------------------------------------------------------

\* every thread taken for the main thread
is_main_thread_Always(t) == TRUE

\* is_main_thread (glass_effect/utils.rs)
is_main_thread(t) == t = MainThread

\* a dispatcher that enqueues whatever the calling thread is
run_on_main_sync_AlwaysQueue(t, closure) ==
    mainQueue' = Append(mainQueue, closure) /\ UNCHANGED exec

\* run_on_main_sync, the submitting half: run in place on the main thread, enqueue otherwise
run_on_main_sync(t, closure) ==
    IF is_main_thread(t)
    THEN exec' = [exec EXCEPT ![t] = closure] /\ UNCHANGED mainQueue
    ELSE mainQueue' = Append(mainQueue, closure) /\ UNCHANGED exec

\* a closure that finishes without sending its value
Finish_NoSend(t, result) ==
    /\ exec' = [exec EXCEPT ![t] = NoTask]
    /\ chan' = chan
    /\ th' = [th EXCEPT ![exec[t].owner].done = <<result>>]

\* run_on_main_sync, the completing half: the closure's value is sent (or returned) to its caller
Finish(t, result) ==
    /\ exec' = [exec EXCEPT ![t] = NoTask]
    /\ chan' = [chan EXCEPT ![exec[t].owner] = <<result>>]
    /\ th' = [th EXCEPT ![exec[t].owner].done = <<result>>]

\* msg_send![view, setTintColor: ..] of the native backend reaches a view that is no
\* NSGlassEffectView (the view was created while the class was missing): whether such a view takes
\* the message is not something the source settles; if it does not, the Objective-C exception
\* unwinds into Rust frames and the process ends
unrecognized_selector(backend, ns, view) ==
    backend = "NativeGlassBackend" /\ ns[view].class # "NSGlassEffectView"

\* the process has ended: no thread takes another step
Aborted ==
    /\ exec' = [t \in Threads |-> [NoTask EXCEPT !.step = "aborted"]]
    /\ th' = [t \in Threads |-> [IdleThread EXCEPT !.pc = "aborted"]]
    /\ chan' = [t \in Threads |-> << >>]
    /\ mainQueue' = << >>
    /\ lockOwner' = "none"
    /\ last' = NoLast
    /\ run' = [l \in Labels |-> BrokenRun]

\* ViewHandle::as_id on the address of an object that no longer exists: what the messages sent to
\* it do is undefined; the closure may go on as if the object were there, read nil, or end the process
dangling(h) == h \in freed

\* rx.recv(): blocks until a value is in the channel
recv_ready(t) == chan[t] # << >>

Result(status, glass, tint, flag) == [status |-> status, glass |-> glass, tint |-> tint, flag |-> flag]

\* a lock that never blocks
LockFree_Always == TRUE

\* what a call makes of a poisoned lock: registry.rs maps the PoisonError to RegistryLockFailed,
\* macos/glass_effect.rs unwraps it and panics
lock_failed == IF crateModule = "macos" THEN "panic" ELSE "RegistryLockFailed"

\* the same for the write that ends update_glass_effect: macos/glass_effect.rs skips the write
\* (if let Ok(..) = lock()) and returns Ok
update_tint_lock_failed == IF crateModule = "macos" THEN "Ok" ELSE "RegistryLockFailed"

\* self.views.lock(): blocks while another thread holds the guard
LockFree == lockOwner = "none"

\* run[label] after a call on that label, described by rec, has returned alone with the given status
RunAfter(r, rec, status) ==
    IF ~rec.config.enabled
    THEN [FreshRun EXCEPT !.afterRemove = rec.glass # NoHandle,
                          !.base = Cardinality(GlassViewsOf(nsviews, rec.label))]
    ELSE IF r.broken THEN r
         ELSE [r EXCEPT !.paths = Append(@, rec.path), !.results = Append(@, status), !.ok = @ /\ status = "Ok",
                        !.first = IF r.paths = << >> THEN rec.glass ELSE @]

\* a call returns: the thread becomes idle; a call that ran alone is remembered
ReturnAs(t, rec, status, alone) ==
    /\ th' = [th EXCEPT ![t] = IdleThread]
    /\ last' = IF alone
               THEN [solo |-> TRUE, label |-> rec.label, enabled |-> rec.config.enabled, path |-> rec.path,
                     status |-> status, glass |-> rec.glass, tint |-> rec.tint, ran |-> rec.ran,
                     config |-> rec.config]
               ELSE NoLast
    /\ run' = IF alone /\ rec.label \in Labels
              THEN [run EXCEPT ![rec.label] = RunAfter(@, rec, status)]
              ELSE run

Return(t, rec, status) == ReturnAs(t, rec, status, solo = t)

\* a call starts on a thread that is not in the middle of a closure
CallStarts(t) ==
    /\ exec[t] = NoTask
    /\ calls < MaxCalls
    /\ calls' = calls + 1
    /\ solo' = IF AllIdle THEN t ELSE "none"
    /\ pre' = IF AllIdle THEN Snapshot ELSE NoSnapshot

\* a call that starts while another is under way ends every run
RunAtStart == IF AllIdle THEN run ELSE [l \in Labels |-> BrokenRun]

\* ------------------------------------------------------------------------
\* set_liquid_glass_effect (glass_effect/mod.rs) and the operations it calls
\* ------------------------------------------------------------------------

\* set_liquid_glass_effect is entered; the first registry call (contains or remove) takes the lock
SetEffect(t, label, config) ==
    /\ th[t].pc = "idle"
    /\ LockFree
    /\ CallStarts(t)
    /\ LET rec == [IdleThread EXCEPT !.label = label, !.config = config,
                                     !.path = IF config.enabled THEN "none" ELSE "remove"]
       IN IF poisoned
          THEN /\ ReturnAs(t, rec, lock_failed, AllIdle)
               /\ UNCHANGED lockOwner
          ELSE /\ th' = [th EXCEPT ![t] = [rec EXCEPT !.pc = IF config.enabled THEN "contains" ELSE "remove"]]
               /\ last' = NoLast
               /\ run' = RunAtStart
               /\ lockOwner' = t
    /\ UNCHANGED <<views, poisoned, nsviews, subviews, mainQueue, exec, chan, glassAvail, crateModule, ref, macos26, glassViews, nextViewId, freed, selectors,
                   window, popped, inserted>>

\* registry.contains under the lock, then the create / update branch
RegistryContains(t) ==
    /\ th[t].pc = "contains"
    /\ lockOwner = t
    /\ lockOwner' = "none"
    /\ th' = [th EXCEPT ![t].pc = IF MapContainsKey(views, th[t].label) THEN "update_start" ELSE "create_start",
                        ![t].path = IF MapContainsKey(views, th[t].label) THEN "update" ELSE "create"]
    /\ UNCHANGED <<views, poisoned, nsviews, subviews, mainQueue, exec, chan, glassAvail, crateModule, ref, macos26, glassViews, nextViewId, freed, selectors,
                   window, calls, solo, pre, popped, inserted, last, run>>

\* a window whose native window reference is always handed out
ns_window_Always(label) == TRUE

\* window.ns_window() is Ok
ns_window(label) == window[label] # "no_ns_window"

\* [ns_window contentView]: NoHandle is nil
content_view(label) == IF window[label] = "no_content_view" THEN NoHandle ELSE ContentView(label)

\* create_glass_effect: window.ns_window(), then the creation closure is handed to run_on_main_sync
CreateStart(t) ==
    /\ th[t].pc = "create_start"
    /\ IF ~ns_window(th[t].label)
       THEN /\ Return(t, th[t], "WindowNotFound")
            /\ UNCHANGED <<mainQueue, exec>>
       ELSE /\ run_on_main_sync(t, [owner |-> t, kind |-> "create", step |-> "create_view",
                                    glass |-> NoHandle, tint |-> NoHandle])
            /\ th' = [th EXCEPT ![t].pc = "create_wait", ![t].ran = TRUE]
            /\ UNCHANGED <<last, run>>
    /\ UNCHANGED <<views, lockOwner, poisoned, nsviews, subviews, chan, glassAvail, crateModule, ref, macos26, glassViews, nextViewId, freed, selectors,
                   window, calls, solo, pre, popped, inserted>>

\* create_glass_effect: the closure's result arrives; on Ok the lock is taken for registry.insert
CreateRecv(t) ==
    /\ th[t].pc = "create_wait"
    /\ recv_ready(t)
    /\ chan' = [chan EXCEPT ![t] = << >>]
    /\ LET r == chan[t][1]
           rec == [th[t] EXCEPT !.got = chan[t], !.glass = r.glass, !.tint = r.tint]
       IN IF r.status # "Ok"
          THEN Return(t, rec, r.status) /\ UNCHANGED lockOwner
          ELSE /\ LockFree
               /\ IF poisoned
                  THEN Return(t, rec, lock_failed) /\ UNCHANGED lockOwner
                  ELSE /\ th' = [th EXCEPT ![t] = [rec EXCEPT !.pc = "insert"]]
                       /\ lockOwner' = t
                       /\ UNCHANGED <<last, run>>
    /\ UNCHANGED <<views, poisoned, nsviews, subviews, mainQueue, exec, glassAvail, crateModule, ref, macos26, glassViews, nextViewId, freed, selectors,
                   window, calls, solo, pre, popped, inserted>>

\* registry.insert under the lock; create_glass_effect returns Ok
RegistryInsert(t) ==
    /\ th[t].pc = "insert"
    /\ lockOwner = t
    /\ lockOwner' = "none"
    /\ views' = MapInsert(views, th[t].label, th[t].glass, th[t].tint)
    /\ inserted' = Append(inserted, th[t].glass)
    /\ Return(t, th[t], "Ok")
    /\ UNCHANGED <<poisoned, nsviews, subviews, mainQueue, exec, chan, glassAvail, crateModule, ref, macos26, glassViews, nextViewId, freed, selectors,
                   window, calls, solo, pre, popped>>

\* update_glass_effect: the lock is taken for registry.get
UpdateStart(t) ==
    /\ th[t].pc = "update_start"
    /\ LockFree
    /\ IF poisoned
       THEN Return(t, th[t], lock_failed) /\ UNCHANGED lockOwner
       ELSE /\ th' = [th EXCEPT ![t].pc = "get"]
            /\ lockOwner' = t
            /\ UNCHANGED <<last, run>>
    /\ UNCHANGED <<views, poisoned, nsviews, subviews, mainQueue, exec, chan, glassAvail, crateModule, ref, macos26, glassViews, nextViewId, freed, selectors,
                   window, calls, solo, pre, popped, inserted>>

\* a lookup whose guard lives on into the call of run_on_main_sync
RegistryGet_KeepLock(t) ==
    /\ th[t].pc = "get"
    /\ lockOwner = t
    /\ LET entry == MapGet(views, th[t].label)
       IN IF entry = << >>
          THEN Return(t, th[t], "WindowNotFound") /\ lockOwner' = "none"
          ELSE /\ th' = [th EXCEPT ![t].pc = "update_dispatch", ![t].glass = entry[1][1], ![t].tint = entry[1][2]]
               /\ UNCHANGED <<lockOwner, last, run>>
    /\ UNCHANGED <<views, poisoned, nsviews, subviews, mainQueue, exec, chan, glassAvail, crateModule, ref, macos26,
                   glassViews, nextViewId, freed, selectors, window, calls, solo, pre, popped, inserted>>

\* registry.get under the lock; a missing entry makes update_glass_effect return WindowNotFound
RegistryGet(t) ==
    /\ th[t].pc = "get"
    /\ lockOwner = t
    /\ lockOwner' = "none"
    /\ LET entry == MapGet(views, th[t].label)
       IN IF entry = << >>
          THEN Return(t, th[t], "WindowNotFound")
          ELSE /\ th' = [th EXCEPT ![t].pc = "update_dispatch", ![t].glass = entry[1][1], ![t].tint = entry[1][2]]
               /\ UNCHANGED <<last, run>>
    /\ UNCHANGED <<views, poisoned, nsviews, subviews, mainQueue, exec, chan, glassAvail, crateModule, ref, macos26, glassViews, nextViewId, freed, selectors,
                   window, calls, solo, pre, popped, inserted>>

\* update_glass_effect: the apply_glass_config closure is handed to run_on_main_sync
UpdateDispatch(t) ==
    /\ th[t].pc = "update_dispatch"
    /\ run_on_main_sync(t, [owner |-> t, kind |-> "apply", step |-> "corner_radius",
                            glass |-> th[t].glass, tint |-> th[t].tint])
    /\ th' = [th EXCEPT ![t].pc = "update_wait", ![t].ran = TRUE]
    /\ UNCHANGED <<views, lockOwner, poisoned, nsviews, subviews, chan, glassAvail, crateModule, ref, macos26, glassViews, nextViewId, freed, selectors,
                   window, calls, solo, pre, popped, inserted, last, run>>

\* update_glass_effect: the new overlay handle arrives and the lock is taken for registry.update_tint
UpdateRecv(t) ==
    /\ th[t].pc = "update_wait"
    /\ recv_ready(t)
    /\ LockFree
    /\ chan' = [chan EXCEPT ![t] = << >>]
    /\ LET rec == [th[t] EXCEPT !.got = chan[t], !.tint = chan[t][1].tint]
       IN IF poisoned
          THEN Return(t, rec, update_tint_lock_failed) /\ UNCHANGED lockOwner
          ELSE /\ th' = [th EXCEPT ![t] = [rec EXCEPT !.pc = "update_tint"]]
               /\ lockOwner' = t
               /\ UNCHANGED <<last, run>>
    /\ UNCHANGED <<views, poisoned, nsviews, subviews, mainQueue, exec, glassAvail, crateModule, ref, macos26, glassViews, nextViewId, freed, selectors,
                   window, calls, solo, pre, popped, inserted>>

\* registry.update_tint under the lock; update_glass_effect returns Ok
RegistryUpdateTint(t) ==
    /\ th[t].pc = "update_tint"
    /\ lockOwner = t
    /\ lockOwner' = "none"
    /\ views' = MapUpdateTint(views, th[t].label, th[t].tint)
    /\ Return(t, th[t], "Ok")
    /\ UNCHANGED <<poisoned, nsviews, subviews, mainQueue, exec, chan, glassAvail, crateModule, ref, macos26, glassViews, nextViewId, freed, selectors,
                   window, calls, solo, pre, popped, inserted>>

\* registry.remove under the lock; with no entry remove_glass_effect returns Ok at once
RegistryRemove(t) ==
    /\ th[t].pc = "remove"
    /\ lockOwner = t
    /\ lockOwner' = "none"
    /\ views' = MapRemove(views, th[t].label)
    /\ LET entry == MapGet(views, th[t].label)
       IN IF entry = << >>
          THEN Return(t, th[t], "Ok") /\ UNCHANGED popped
          ELSE /\ th' = [th EXCEPT ![t].pc = "remove_dispatch", ![t].glass = entry[1][1], ![t].tint = entry[1][2]]
               /\ popped' = popped \cup ({entry[1][1], entry[1][2]} \ {NoHandle})
               /\ UNCHANGED <<last, run>>
    /\ UNCHANGED <<poisoned, nsviews, subviews, mainQueue, exec, chan, glassAvail, crateModule, ref, macos26, glassViews, nextViewId, freed, selectors,
                   window, calls, solo, pre, inserted>>

\* remove_glass_effect: the detaching closure is handed to run_on_main_sync
RemoveDispatch(t) ==
    /\ th[t].pc = "remove_dispatch"
    /\ run_on_main_sync(t, [owner |-> t, kind |-> "remove",
                            step |-> "rm_tint",
                            glass |-> th[t].glass, tint |-> th[t].tint])
    /\ th' = [th EXCEPT ![t].pc = "remove_wait", ![t].ran = TRUE]
    /\ UNCHANGED <<views, lockOwner, poisoned, nsviews, subviews, chan, glassAvail, crateModule, ref, macos26, glassViews, nextViewId, freed, selectors,
                   window, calls, solo, pre, popped, inserted, last, run>>

\* remove_glass_effect: the closure has run; Ok is returned
RemoveRecv(t) ==
    /\ th[t].pc = "remove_wait"
    /\ recv_ready(t)
    /\ chan' = [chan EXCEPT ![t] = << >>]
    /\ Return(t, [th[t] EXCEPT !.got = chan[t]], "Ok")
    /\ UNCHANGED <<views, lockOwner, poisoned, nsviews, subviews, mainQueue, exec, glassAvail, crateModule, ref, macos26, glassViews, nextViewId, freed, selectors,
                   window, calls, solo, pre, popped, inserted>>

\* is_glass_supported (glass_effect/mod.rs): glass_class_available is handed to run_on_main_sync
IsSupported(t) ==
    /\ th[t].pc = "idle"
    /\ CallStarts(t)
    /\ run_on_main_sync(t, [owner |-> t, kind |-> "probe", step |-> "probe",
                            glass |-> NoHandle, tint |-> NoHandle])
    /\ th' = [th EXCEPT ![t] = [IdleThread EXCEPT !.pc = "probe_wait", !.path = "probe", !.ran = TRUE]]
    /\ last' = NoLast
    /\ run' = RunAtStart
    /\ UNCHANGED <<views, lockOwner, poisoned, nsviews, subviews, chan, glassAvail, crateModule, ref, macos26, glassViews, nextViewId, freed, selectors,
                   window, popped, inserted>>

\* the thread that holds the registry guard terminates (a panic unwinds through the guard): the
\* Mutex is poisoned and released, the call never returns.  The main thread is left out: the
\* process ends with it.
Panic(t) ==
    /\ t # MainThread
    /\ lockOwner = t
    /\ poisoned' = TRUE
    /\ lockOwner' = "none"
    /\ th' = [th EXCEPT ![t] = IdleThread]
    /\ last' = NoLast
    /\ run' = [l \in Labels |-> BrokenRun]
    /\ UNCHANGED <<views, nsviews, subviews, mainQueue, exec, chan, glassAvail, crateModule, ref, macos26, glassViews, nextViewId, freed, selectors,
                   window, calls, solo, pre, popped, inserted>>

\* is_glass_supported returns the probe's value
ProbeRecv(t) ==
    /\ th[t].pc = "probe_wait"
    /\ recv_ready(t)
    /\ chan' = [chan EXCEPT ![t] = << >>]
    /\ Return(t, [th[t] EXCEPT !.got = chan[t]], IF chan[t][1].flag THEN "true" ELSE "false")
    /\ UNCHANGED <<views, lockOwner, poisoned, nsviews, subviews, mainQueue, exec, glassAvail, crateModule, ref, macos26, glassViews, nextViewId, freed, selectors,
                   window, calls, solo, pre, popped, inserted>>


\* ------------------------------------------------------------------------
\* The main thread's queue and the closures run through run_on_main_sync
\* ------------------------------------------------------------------------

\* the main dispatch queue hands its oldest closure to the main thread when that thread is free
Dequeue ==
    /\ mainQueue # << >>
    /\ th[MainThread].pc = "idle"
    /\ exec[MainThread] = NoTask
    /\ exec' = [exec EXCEPT ![MainThread] = Head(mainQueue)]
    /\ mainQueue' = Tail(mainQueue)
    /\ UNCHANGED <<views, lockOwner, poisoned, nsviews, subviews, chan, th, glassAvail, crateModule, ref, macos26, glassViews, nextViewId, freed, selectors,
                   window, calls, solo, pre, popped, inserted, last, run>>

\* the creation closure attaching the view before configuring it
AfterStep_AttachFirst(kind, step) ==
    IF kind = "create"
    THEN CASE step = "create_view" -> "attach"
           [] step = "attach" -> "corner_radius"
           [] step = "corner_radius" -> "tint"
           [] step = "tint" -> "variant"
           [] OTHER -> "end"
    ELSE IF kind = "apply"
    THEN CASE step = "corner_radius" -> "tint"
           [] step = "tint" -> "variant"
           [] OTHER -> "end"
    ELSE IF kind = "remove"
    THEN CASE step = "rm_tint" -> "rm_glass"
           [] OTHER -> "end"
    ELSE "end"

\* the statements of a closure in source order; "end" is its return
AfterStep(kind, step) ==
    IF kind = "create"
    THEN CASE step = "create_view" -> "corner_radius"
           [] step = "corner_radius" -> "tint"
           [] step = "tint" -> "variant"
           [] step = "variant" -> "attach"
           [] OTHER -> "end"
    ELSE IF kind = "apply"
    THEN CASE step = "corner_radius" -> "tint"
           [] step = "tint" -> "variant"
           [] OTHER -> "end"
    ELSE IF kind = "remove"
    THEN CASE step = "rm_tint" -> "rm_glass"
           [] OTHER -> "end"
    ELSE "end"

\* the closure goes on to its next statement, or returns its value
Advance(t, glass, tint) ==
    IF AfterStep(exec[t].kind, exec[t].step) = "end"
    THEN Finish(t, Result("Ok", IF exec[t].kind = "remove" THEN NoHandle ELSE glass,
                                IF exec[t].kind = "remove" THEN NoHandle ELSE tint, FALSE))
    ELSE /\ exec' = [exec EXCEPT ![t].glass = glass, ![t].tint = tint,
                                 ![t].step = AfterStep(exec[t].kind, exec[t].step)]
         /\ UNCHANGED <<chan, th>>

\* create_and_attach_glass_view: contentView, the nil check, bounds, backend.create_view
StepCreateView(t) ==
    /\ exec[t].step = "create_view"
    /\ LET label == th[exec[t].owner].label
           class == create_view(get_backend)
       IN \/ /\ IF content_view(label) = NoHandle \/ class = << >>
                THEN /\ Finish(t, Result("ViewCreationFailed", NoHandle, NoHandle, FALSE))
                     /\ UNCHANGED nsviews
                ELSE /\ nsviews' = NewView(nsviews, class[1], label)
                     /\ Advance(t, Len(nsviews) + 1, exec[t].tint)
             /\ UNCHANGED <<lockOwner, mainQueue, last, run>>
          \/ /\ dangling(NSWindow(label))
             /\ Finish(t, Result("ViewCreationFailed", NoHandle, NoHandle, FALSE))
             /\ UNCHANGED <<nsviews, lockOwner, mainQueue, last, run>>
          \/ /\ dangling(NSWindow(label))
             /\ Aborted
             /\ UNCHANGED nsviews
    /\ UNCHANGED <<views, poisoned, subviews, glassAvail, crateModule, ref, macos26, glassViews, nextViewId, freed, selectors,
                   window, calls, solo, pre, popped, inserted>>

\* apply_glass_config: setWantsLayer, layer, setCornerRadius, setMasksToBounds
StepCornerRadius(t) ==
    /\ exec[t].step = "corner_radius"
    /\ nsviews' = apply_corner_radius(nsviews, exec[t].glass, th[exec[t].owner].config.corner_radius)
    /\ Advance(t, exec[t].glass, exec[t].tint)
    /\ UNCHANGED <<views, lockOwner, poisoned, subviews, mainQueue, glassAvail, crateModule, ref, macos26, glassViews, nextViewId, freed, selectors,
                   window, calls, solo, pre, popped, inserted, last, run>>

\* apply_glass_config: get_backend, color_from_hex, backend.apply_tint or backend.clear_tint
StepTint(t) ==
    /\ exec[t].step = "tint"
    /\ \/ /\ nsviews' = apply_tint_config(nsviews, exec[t].glass, th[exec[t].owner].config, exec[t].tint)
          /\ Advance(t, exec[t].glass, tint_overlay_of(nsviews, exec[t].glass, th[exec[t].owner].config, exec[t].tint))
          /\ UNCHANGED <<lockOwner, mainQueue, last, run>>
       \/ /\ unrecognized_selector(tint_backend(nsviews, exec[t].glass), nsviews, exec[t].glass)
          /\ Aborted
          /\ UNCHANGED nsviews
    /\ UNCHANGED <<views, poisoned, subviews, glassAvail, crateModule, ref, macos26, glassViews, nextViewId, freed, selectors,
                   window, calls, solo, pre, popped, inserted>>

\* apply_glass_config: backend.set_variant; the update closure returns the overlay handle
StepVariant(t) ==
    /\ exec[t].step = "variant"
    /\ nsviews' = set_variant(get_backend, nsviews, exec[t].glass, th[exec[t].owner].config.variant)
    /\ Advance(t, exec[t].glass, exec[t].tint)
    /\ UNCHANGED <<views, lockOwner, poisoned, subviews, mainQueue, glassAvail, crateModule, ref, macos26, glassViews, nextViewId, freed, selectors,
                   window, calls, solo, pre, popped, inserted, last, run>>

\* create_and_attach_glass_view: addSubview positioned below everything; the closure returns both handles
StepAttach(t) ==
    /\ exec[t].step = "attach"
    /\ subviews' = attach_below(subviews, th[exec[t].owner].label, exec[t].glass)
    /\ nsviews' = [nsviews EXCEPT ![exec[t].glass].superview = content_view(th[exec[t].owner].label),
                                  ![exec[t].glass].lastOp = "addSubview"]
    /\ Advance(t, exec[t].glass, exec[t].tint)
    /\ UNCHANGED <<views, lockOwner, poisoned, mainQueue, glassAvail, crateModule, ref, macos26, glassViews, nextViewId, freed, selectors,
                   window, calls, solo, pre, popped, inserted, last, run>>

\* the removal closure: if let Some(tint) = tint_handle { [tint removeFromSuperview] }
StepRemoveTint(t) ==
    /\ exec[t].step = "rm_tint"
    /\ IF exec[t].tint # NoHandle
       THEN /\ nsviews' = DetachedViews(nsviews, exec[t].tint)
            /\ subviews' = DetachedSubviews(subviews, nsviews, exec[t].tint)
       ELSE UNCHANGED <<nsviews, subviews>>
    /\ Advance(t, exec[t].glass, exec[t].tint)
    /\ UNCHANGED <<views, lockOwner, poisoned, mainQueue, glassAvail, crateModule, ref, macos26, glassViews, nextViewId, freed, selectors,
                   window, calls, solo, pre, popped, inserted, last, run>>

\* the removal closure: [glass removeFromSuperview]
StepRemoveGlass(t) ==
    /\ exec[t].step = "rm_glass"
    /\ nsviews' = [DetachedViews(nsviews, exec[t].glass) EXCEPT ![exec[t].glass].lastOp = "removeFromSuperview"]
    /\ subviews' = DetachedSubviews(subviews, nsviews, exec[t].glass)
    /\ Advance(t, exec[t].glass, exec[t].tint)
    /\ UNCHANGED <<views, lockOwner, poisoned, mainQueue, glassAvail, crateModule, ref, macos26, glassViews, nextViewId, freed, selectors,
                   window, calls, solo, pre, popped, inserted, last, run>>

\* the closure of is_glass_supported
StepProbe(t) ==
    /\ exec[t].step = "probe"
    /\ Finish(t, Result("Ok", NoHandle, NoHandle, is_glass_supported))
    /\ UNCHANGED <<views, lockOwner, poisoned, nsviews, subviews, mainQueue, glassAvail, crateModule, ref, macos26, glassViews, nextViewId, freed, selectors,
                   window, calls, solo, pre, popped, inserted, last, run>>

\* ------------------------------------------------------------------------
\* Specifications
\* ------------------------------------------------------------------------

\* the set_effect inputs of the concurrent specification: an enable with every field set, and a disable
RaceConfigs ==
    {[enabled |-> TRUE, corner_radius |-> 12, tint_color |-> <<RedHalf>>, variant |-> 16],
     DisabledConfig}

InitCommon ==
    /\ views = {}
    /\ lockOwner = "none"
    /\ poisoned = FALSE
    /\ nsviews = << >>
    /\ mainQueue = << >>
    /\ exec = [t \in Threads |-> NoTask]
    /\ chan = [t \in Threads |-> << >>]
    /\ th = [t \in Threads |-> IdleThread]
    /\ glassAvail \in BOOLEAN
    /\ glassViews = {}
    /\ nextViewId = 0
    /\ freed = {}
    /\ ref = NoRef
    /\ selectors = (IF glassAvail THEN {"set_variant:"} ELSE {})
    /\ subviews = [l \in Labels |-> IF window[l] = "ok" THEN <<WebView>> ELSE << >>]
    /\ calls = 0
    /\ solo = "none"
    /\ pre = NoSnapshot
    /\ popped = {}
    /\ inserted = << >>
    /\ last = NoLast
    /\ run = [l \in Labels |-> FreshRun]

\* plugin setup (lib.rs init): an empty registry; any thread may call afterwards
Init ==
    /\ window \in {w \in [Labels -> WindowStates] : w["aux"] = "ok"}
    /\ InitCommon
    /\ crateModule = "glass_effect"
    /\ macos26 = glassAvail

\* the steps of a call under way and of the main thread
Step(t) ==
    \/ RegistryContains(t)
    \/ CreateStart(t)
    \/ CreateRecv(t)
    \/ RegistryInsert(t)
    \/ UpdateStart(t)
    \/ RegistryGet(t)
    \/ UpdateDispatch(t)
    \/ UpdateRecv(t)
    \/ RegistryUpdateTint(t)
    \/ RegistryRemove(t)
    \/ RemoveDispatch(t)
    \/ RemoveRecv(t)
    \/ ProbeRecv(t)
    \/ StepCreateView(t)
    \/ StepCornerRadius(t)
    \/ StepTint(t)
    \/ StepVariant(t)
    \/ StepAttach(t)
    \/ StepRemoveTint(t)
    \/ StepRemoveGlass(t)
    \/ StepProbe(t)

\* another call may start
CanStart == Cardinality({t \in Threads : th[t].pc # "idle"}) < MaxInFlight

Next ==
    \/ \E t \in Threads : \E c \in RaceConfigs : CanStart /\ SetEffect(t, "main", c)
    \/ \E t \in Threads : CanStart /\ IsSupported(t)
    \/ \E t \in Threads : Step(t)
    \/ Dequeue

\* concurrent callers on one window
Spec == Init /\ [][Next]_vars

\* the set_effect inputs of the sequential specification
SeqConfigs ==
    {c \in CallConfigs : c.variant = 0 \/ (c.corner_radius = 12 /\ c.tint_color = <<RedHalf>>)}

\* the threads that call in the sequential specification: the main thread and one worker
SeqCallers == {"ui", "w1"}

NextSeq ==
    \/ \E t \in SeqCallers : \E l \in Labels : \E c \in SeqConfigs : AllIdle /\ SetEffect(t, l, c)
    \/ \E t \in SeqCallers : AllIdle /\ IsSupported(t)
    \/ \E t \in Threads : Step(t)
    \/ Dequeue

\* every call returns before the next one starts
SeqSpec == Init /\ [][NextSeq]_vars

\* the set_effect inputs of the fair specification
FairConfigs == {DefaultConfig, DisabledConfig}

NextFair ==
    \/ \E t \in SeqCallers : \E c \in FairConfigs : calls < MaxFairCalls /\ CanStart /\ SetEffect(t, "main", c)
    \/ \E t \in SeqCallers : calls < MaxFairCalls /\ CanStart /\ IsSupported(t)
    \/ \E t \in Threads : Step(t)
    \/ Dequeue

\* concurrent callers, a main thread that keeps draining its queue and running the closures it took,
\* and callers that keep running while they are not blocked
FairSpec ==
    /\ Init
    /\ [][NextFair]_vars
    /\ WF_vars(Dequeue)
    /\ \A t \in Threads : WF_vars(Step(t))

\* concurrent callers on one window under the fallback backend, with and without a tint
TintRaceConfigs == RaceConfigs \cup {DefaultConfig}

InitTintRace ==
    /\ window = [l \in Labels |-> "ok"]
    /\ InitCommon
    /\ glassAvail = FALSE
    /\ crateModule = "glass_effect"
    /\ macos26 = FALSE

NextTintRace ==
    \/ \E t \in Threads : \E c \in TintRaceConfigs :
           calls < MaxTintCalls /\ CanStart /\ SetEffect(t, "main", c)
    \/ \E t \in SeqCallers : calls < MaxTintCalls /\ CanStart /\ IsSupported(t)
    \/ \E t \in Threads : Step(t)
    \/ Dequeue

TintRaceSpec == InitTintRace /\ [][NextTintRace]_vars

\* the two implementations of the snapshot, any outcome of the version check, callers on "main",
\* and lock holders that may terminate
Implementations == {"glass_effect", "macos"}

InitEnv ==
    /\ window = [l \in Labels |-> "ok"]
    /\ InitCommon
    /\ crateModule \in Implementations
    /\ macos26 \in BOOLEAN

NextEnv ==
    \/ \E t \in SeqCallers : \E c \in RaceConfigs : calls < MaxEnvCalls /\ CanStart /\ SetEffect(t, "main", c)
    \/ \E t \in SeqCallers : calls < MaxEnvCalls /\ CanStart /\ IsSupported(t)
    \/ \E t \in Threads : Step(t)
    \/ Dequeue
    \/ \E t \in Threads : Panic(t)

EnvSpec == InitEnv /\ [][NextEnv]_vars

\* the commands of a build for another platform than macOS (the cfg(not(target_os = "macos"))
\* branches of commands.rs and desktop.rs)
NotMacosCommands ==
    {"set_effect", "add_glass_effect", "configure_glass", "set_variant", "set_scrim", "set_subdued",
     "remove_glass_effect"}

\* the view ids the callers pass: the sentinel add_glass_effect gave them, or any other
ViewIds == {-1, 1}

\* what the branch of a command returns: Ok(-1) for add_glass_effect, false for is_glass_supported,
\* Ok(()) for the others
NotMacosValue_GeneratedId(cmd) ==
    [status |-> IF cmd = "is_supported" THEN "false" ELSE "Ok",
     id |-> IF cmd = "add_glass_effect" THEN 1 ELSE NoHandle]

NotMacosValue(cmd) ==
    [status |-> IF cmd = "is_supported" THEN "false" ELSE "Ok",
     id |-> IF cmd = "add_glass_effect" THEN -1 ELSE NoHandle]

\* a command on such a build: the arguments are dropped and the value returned at once
NotMacosCommand(t, cmd, label, config, view_id) ==
    /\ th[t].pc = "idle"
    /\ CallStarts(t)
    /\ last' = [solo |-> TRUE, label |-> label, enabled |-> config.enabled, path |-> cmd,
                status |-> NotMacosValue(cmd).status, glass |-> NotMacosValue(cmd).id, tint |-> view_id,
                ran |-> FALSE, config |-> config]
    /\ UNCHANGED <<views, lockOwner, poisoned, nsviews, subviews, mainQueue, exec, chan, th, glassAvail,
                   crateModule, ref, macos26, glassViews, nextViewId, freed, selectors, window, popped, inserted, run>>

\* no macOS: no NSGlassEffectView class, no version 26, and init (lib.rs) manages no registry
InitNotMacos ==
    /\ window = [l \in Labels |-> "ok"]
    /\ InitCommon
    /\ glassAvail = FALSE
    /\ crateModule = "glass_effect"
    /\ macos26 = FALSE

NextNotMacos ==
    \/ \E t \in SeqCallers : \E l \in Labels : \E c \in SeqConfigs :
           NotMacosCommand(t, "set_effect", l, c, NoHandle)
    \/ \E t \in SeqCallers : \E l \in Labels : \E c \in SeqConfigs :
           NotMacosCommand(t, "add_glass_effect", l, c, NoHandle)
    \/ \E t \in SeqCallers : \E cmd \in NotMacosCommands \ {"set_effect", "add_glass_effect"} : \E v \in ViewIds :
           NotMacosCommand(t, cmd, "none", DisabledConfig, v)
    \/ \E t \in SeqCallers : NotMacosCommand(t, "is_supported", "none", DisabledConfig, NoHandle)

NotMacosSpec == InitNotMacos /\ [][NextNotMacos]_vars

\* the host closes a window without a set_effect(enabled = false) for it: the main thread, between
\* two closures, destroys the NSWindow, its content view and the web view.  The effect views and
\* overlays leave the hierarchy but stay allocated: backend.rs makes them with alloc / initWithFrame
\* and the source never releases that reference.  Nothing tells the plugin: init (lib.rs)
\* registers no window event handler, so the registry keeps the entry.
TearDown(label) ==
    /\ window[label] = "ok"
    /\ exec[MainThread] = NoTask
    /\ th[MainThread].pc = "idle"
    /\ window' = [window EXCEPT ![label] = "no_ns_window"]
    /\ freed' = freed \cup {NSWindow(label), ContentView(label)}
    /\ nsviews' = [v \in 1..Len(nsviews) |->
                      IF nsviews[v].superview = ContentView(label)
                      THEN [nsviews[v] EXCEPT !.superview = NoHandle]
                      ELSE nsviews[v]]
    /\ subviews' = [subviews EXCEPT ![label] = << >>]
    /\ last' = NoLast
    /\ run' = [l \in Labels |-> BrokenRun]
    /\ UNCHANGED <<views, lockOwner, poisoned, mainQueue, exec, chan, th, glassAvail, crateModule, ref, macos26,
                   glassViews, nextViewId, selectors, calls, solo, pre, popped, inserted>>

InitTeardown ==
    /\ window = [l \in Labels |-> "ok"]
    /\ InitCommon
    /\ crateModule = "glass_effect"
    /\ macos26 = glassAvail

NextTeardown ==
    \/ \E t \in SeqCallers : \E c \in RaceConfigs : calls < MaxEnvCalls /\ CanStart /\ SetEffect(t, "main", c)
    \/ \E t \in SeqCallers : calls < MaxEnvCalls /\ CanStart /\ IsSupported(t)
    \/ \E t \in Threads : Step(t)
    \/ Dequeue
    \/ TearDown("main")

\* callers on "main" and a host that may close the window at any time
TeardownSpec == InitTeardown /\ [][NextTeardown]_vars

\* the class NSGlassEffectView appears or disappears while the process runs (a framework is
\* loaded, a class pair registered or disposed).  apply_glass_config asks get_backend once for its
\* tint and its variant statement, so the change falls before or after that pair.
CapabilityChanges ==
    /\ \A t \in Threads : exec[t].step \notin {"variant", "aborted"}
    /\ glassAvail' = ~glassAvail
    /\ UNCHANGED <<views, lockOwner, poisoned, nsviews, subviews, mainQueue, exec, chan, th, crateModule, ref, macos26,
                   glassViews, nextViewId, freed, selectors, window, calls, solo, pre, popped, inserted, last, run>>

\* the variant setters NSGlassEffectView may implement
VariantSetters == {"set_variant:", "setVariant:"}

\* the set_effect inputs of this specification
CapConfigs ==
    {[enabled |-> TRUE, corner_radius |-> 12, tint_color |-> <<RedHalf>>, variant |-> 16],
     [enabled |-> TRUE, corner_radius |-> 0, tint_color |-> << >>, variant |-> 0],
     DisabledConfig}

InitCap ==
    /\ window = [l \in Labels |-> "ok"]
    /\ views = {}
    /\ lockOwner = "none"
    /\ poisoned = FALSE
    /\ nsviews = << >>
    /\ mainQueue = << >>
    /\ exec = [t \in Threads |-> NoTask]
    /\ chan = [t \in Threads |-> << >>]
    /\ th = [t \in Threads |-> IdleThread]
    /\ glassAvail \in BOOLEAN
    /\ crateModule = "glass_effect"
    /\ macos26 = TRUE
    /\ glassViews = {}
    /\ nextViewId = 0
    /\ freed = {}
    /\ ref = NoRef
    /\ selectors \in SUBSET VariantSetters
    /\ subviews = [l \in Labels |-> <<WebView>>]
    /\ calls = 0
    /\ solo = "none"
    /\ pre = NoSnapshot
    /\ popped = {}
    /\ inserted = << >>
    /\ last = NoLast
    /\ run = [l \in Labels |-> FreshRun]

NextCap ==
    \/ \E t \in SeqCallers : \E c \in CapConfigs : calls < MaxCapCalls /\ AllIdle /\ SetEffect(t, "main", c)
    \/ \E t \in SeqCallers : calls < MaxCapCalls /\ AllIdle /\ IsSupported(t)
    \/ \E t \in Threads : Step(t)
    \/ Dequeue
    \/ CapabilityChanges

\* calls made one after another on "main" while the capability may change, on a system whose
\* NSGlassEffectView implements any of the variant setters
CapSpec == InitCap /\ [][NextCap]_vars

\* two runs of the same calls that differ only in their variants: every call made for "main" is
\* made again for "aux" with any variant in place of its own
TwinConfigs == EnabledConfigs \cup {DisabledConfig}

NextTwin ==
    \/ \E t \in SeqCallers : \E c \in TwinConfigs :
           AllIdle /\ last.label # "main" /\ SetEffect(t, "main", c)
    \/ \E t \in SeqCallers : \E v \in Variants :
           AllIdle /\ last.label = "main" /\ SetEffect(t, "aux", [last.config EXCEPT !.variant = v])
    \/ \E t \in SeqCallers : AllIdle /\ last.label # "main" /\ IsSupported(t)
    \/ \E t \in Threads : Step(t)
    \/ Dequeue

InitTwin ==
    /\ window = [l \in Labels |-> "ok"]
    /\ InitCommon
    /\ crateModule = "glass_effect"
    /\ macos26 = glassAvail

TwinSpec == InitTwin /\ [][NextTwin]_vars

\* the two implementations side by side: every call is made for "main" by glass_effect/ and then,
\* with the same config, for "aux" by macos/glass_effect.rs; crateModule says whose turn it is
SwitchImplementation ==
    /\ AllIdle
    /\ mainQueue = << >>
    /\ exec[MainThread] = NoTask
    /\ \/ crateModule = "glass_effect" /\ last.label = "main" /\ crateModule' = "macos"
       \/ crateModule = "macos" /\ last.label = "aux" /\ crateModule' = "glass_effect"
    /\ UNCHANGED <<views, lockOwner, poisoned, nsviews, subviews, mainQueue, exec, chan, th, glassAvail, ref,
                   macos26, glassViews, nextViewId, freed, selectors, window, calls, solo, pre, popped,
                   inserted, last, run>>

NextEquiv ==
    \/ \E t \in SeqCallers : \E c \in TwinConfigs :
           AllIdle /\ crateModule = "glass_effect" /\ last.label # "main" /\ SetEffect(t, "main", c)
    \/ \E t \in SeqCallers :
           AllIdle /\ crateModule = "macos" /\ last.label = "main" /\ SetEffect(t, "aux", last.config)
    \/ \E t \in SeqCallers :
           AllIdle /\ crateModule = "glass_effect" /\ last.label # "main" /\ IsSupported(t)
    \/ SwitchImplementation
    \/ \E t \in Threads : Step(t)
    \/ Dequeue

InitEquiv ==
    /\ window \in {[l \in Labels |-> w] : w \in WindowStates}
    /\ InitCommon
    /\ crateModule = "glass_effect"
    /\ macos26 = glassAvail

EquivSpec == InitEquiv /\ [][NextEquiv]_vars

\* ------------------------------------------------------------------------
\* The registry by itself: its five methods called in any order with any key and any handles, next
\* to a reference map that is a function from keys to Option<(glass_view, tint_overlay)>
\* ------------------------------------------------------------------------

RegHandles == 1..MaxRegHandles

\* what a method returned: Ok(value), or Err(RegistryLockFailed)
RegOk(value) == <<"Ok", value>>

\* a call of a registry method: the lock is taken, the map read or written, the lock released
RegistryCall(op, views1, map1, expected, returned) ==
    /\ LockFree
    /\ views' = views1
    /\ ref' = [map |-> map1, op |-> op, expected |-> expected,
               returned |-> IF poisoned THEN <<"RegistryLockFailed">> ELSE RegOk(returned)]
    /\ UNCHANGED <<lockOwner, poisoned, nsviews, subviews, mainQueue, exec, chan, th, glassAvail, crateModule,
                   macos26, glassViews, nextViewId, freed, selectors, window, calls, solo, pre, popped,
                   inserted, last, run>>

\* GlassViewRegistry::contains
CallContains(label) ==
    RegistryCall("contains", views, ref.map, RegOk(ref.map[label] # << >>), MapContainsKey(views, label))

\* GlassViewRegistry::insert
CallInsert(label, glass_view, tint_overlay) ==
    RegistryCall("insert", MapInsert(views, label, glass_view, tint_overlay),
                 [ref.map EXCEPT ![label] = << <<glass_view, tint_overlay>> >>], RegOk(<< >>), << >>)

\* GlassViewRegistry::get
CallGet(label) == RegistryCall("get", views, ref.map, RegOk(ref.map[label]), MapGet(views, label))

\* GlassViewRegistry::remove
CallRemove(label) ==
    RegistryCall("remove", MapRemove(views, label), [ref.map EXCEPT ![label] = << >>], RegOk(ref.map[label]),
                 MapGet(views, label))

\* GlassViewRegistry::update_tint
CallUpdateTint(label, tint) ==
    RegistryCall("update_tint", MapUpdateTint(views, label, tint),
                 [ref.map EXCEPT ![label] = IF @ = << >> THEN @ ELSE << <<@[1][1], tint>> >>],
                 RegOk(<< >>), << >>)

InitReg ==
    /\ window = [l \in Labels |-> "ok"]
    /\ InitCommon
    /\ glassAvail = FALSE
    /\ crateModule = "glass_effect"
    /\ macos26 = FALSE

NextReg ==
    \/ \E l \in Labels : CallContains(l)
    \/ \E l \in Labels : \E g \in RegHandles : \E o \in RegHandles \cup {NoHandle} : CallInsert(l, g, o)
    \/ \E l \in Labels : CallGet(l)
    \/ \E l \in Labels : CallRemove(l)
    \/ \E l \in Labels : \E o \in RegHandles \cup {NoHandle} : CallUpdateTint(l, o)

RegSpec == InitReg /\ [][NextReg]_vars

\* ------------------------------------------------------------------------
\* The per-view commands on macOS (commands.rs): add_glass_effect returns an id, the other commands
\* address a view by id.  commands.rs hands each call to a function of the macos module that is
\* not part of the source tree; these functions follow the command table of the specification.
\* ------------------------------------------------------------------------

\* the variants of Error (error.rs)
ErrorKinds ==
    {"UnsupportedPlatform", "UnsupportedMacOSVersion", "WindowNotFound", "ViewCreationFailed",
     "InvalidColorFormat", "Tauri"}

\* the commands that address a view by id
ViewCommands == {"configure_glass", "set_variant", "set_scrim", "set_subdued", "remove_glass_effect"}

\* the ids callers pass: the -1 of other platforms, every id handed out, and ids never handed out
AddressedIds == -1 .. MaxViews + 1

\* the GlassOptions of add_glass_effect and the arguments of configure_glass
GlassOptionsSet ==
    {[enabled |-> TRUE, corner_radius |-> 0, tint_color |-> << >>, variant |-> 0],
     [enabled |-> TRUE, corner_radius |-> 12, tint_color |-> <<RedHalf>>, variant |-> 0]}

\* the arguments of a command: corner radius and tint for configure_glass, the variant for set_variant
ViewArguments(cmd) ==
    IF cmd = "configure_glass" THEN GlassOptionsSet
    ELSE IF cmd = "set_variant" THEN {[DefaultConfig EXCEPT !.variant = 16]}
    ELSE {DefaultConfig}

\* the entry stored under an id, << >> if there is none
ViewOf(id) == IF \E e \in glassViews : e.id = id THEN <<CHOOSE e \in glassViews : e.id = id>> ELSE << >>

\* a call of a per-view command returns
ViewReturn(cmd, id, status, config) ==
    last' = [solo |-> TRUE, label |-> "main", enabled |-> TRUE, path |-> cmd, status |-> status,
             glass |-> id, tint |-> NoHandle, ran |-> TRUE, config |-> config]

\* add_glass_effect: a view is created for the window, configured, put below the web content and
\* stored under a fresh id, which is returned
AddGlassEffect(t, options) ==
    /\ th[t].pc = "idle"
    /\ AllIdle
    /\ is_main_thread(t)
    /\ nextViewId < MaxViews
    /\ CallStarts(t)
    /\ LET glass == Len(nsviews) + 1
           created == NewView(nsviews, create_view(get_backend)[1], "main")
           rounded == apply_corner_radius(created, glass, options.corner_radius)
           tinted == apply_tint_config(rounded, glass, options, NoHandle)
           tint == tint_overlay_of(rounded, glass, options, NoHandle)
       IN /\ nsviews' = [tinted EXCEPT ![glass].superview = ContentView("main")]
          /\ subviews' = attach_below(subviews, "main", glass)
          /\ glassViews' = glassViews \cup {[id |-> nextViewId, glass_view |-> glass, tint_overlay |-> tint]}
          /\ nextViewId' = nextViewId + 1
          /\ ViewReturn("add_glass_effect", nextViewId, "Ok", options)
    /\ UNCHANGED <<views, lockOwner, poisoned, mainQueue, exec, chan, th, glassAvail, crateModule, ref, macos26,
                   freed, selectors, window, popped, inserted, run>>

\* what a command changes in the views of the entry it found
ViewCommandViews(cmd, e, arg) ==
    IF cmd = "configure_glass"
    THEN apply_tint_config(apply_corner_radius(nsviews, e.glass_view, arg.corner_radius),
                           e.glass_view, arg, e.tint_overlay)
    ELSE IF cmd = "set_variant"
    THEN set_variant(get_backend, nsviews, e.glass_view, arg.variant)
    ELSE IF cmd = "remove_glass_effect"
    THEN DetachedViews(IF e.tint_overlay # NoHandle THEN DetachedViews(nsviews, e.tint_overlay) ELSE nsviews,
                       e.glass_view)
    ELSE [nsviews EXCEPT ![e.glass_view].lastOp = cmd]

\* the error of a command whose id is not in the registry: Err(e) for a variant e of Error
ViewLookupFailed == ErrorKinds

\* configure_glass, set_variant, set_scrim, set_subdued, remove_glass_effect: look the id up, fail
\* if it is not there, else act on the view
ViewCommand(t, cmd, id, arg) ==
    /\ th[t].pc = "idle"
    /\ AllIdle
    /\ is_main_thread(t)
    /\ CallStarts(t)
    /\ IF ViewOf(id) = << >>
       THEN /\ \E e \in ViewLookupFailed : ViewReturn(cmd, id, e, arg)
            /\ UNCHANGED <<nsviews, subviews, glassViews>>
       ELSE LET e == ViewOf(id)[1]
            IN /\ nsviews' = ViewCommandViews(cmd, e, arg)
               /\ subviews' = IF cmd = "remove_glass_effect"
                              THEN DetachedSubviews(subviews, nsviews, e.glass_view)
                              ELSE subviews
               /\ glassViews' =
                      IF cmd = "remove_glass_effect" THEN glassViews \ {e}
                      ELSE IF cmd = "configure_glass"
                      THEN (glassViews \ {e}) \cup
                               {[e EXCEPT !.tint_overlay = tint_overlay_of(nsviews, e.glass_view, arg, e.tint_overlay)]}
                      ELSE glassViews
               /\ ViewReturn(cmd, id, "Ok", arg)
    /\ UNCHANGED <<views, lockOwner, poisoned, mainQueue, exec, chan, th, glassAvail, crateModule, ref, macos26,
                   nextViewId, freed, selectors, window, popped, inserted, run>>

InitView ==
    /\ window = [l \in Labels |-> "ok"]
    /\ InitCommon
    /\ crateModule = "macos"
    /\ macos26 = glassAvail

NextView ==
    \/ \E o \in GlassOptionsSet : calls < MaxViewCalls /\ AddGlassEffect(MainThread, o)
    \/ \E cmd \in ViewCommands : \E id \in AddressedIds : \E arg \in ViewArguments(cmd) :
           calls < MaxViewCalls /\ ViewCommand(MainThread, cmd, id, arg)

\* the per-view commands, called one after another on the main thread
ViewSpec == InitView /\ [][NextView]_vars

\* two-digit groups the tint strings are built from
HexPairs == {<<"0", "0">>, <<"8", "0">>, <<"F", "F">>, <<"a", "1">>}

RECURSIVE PairStrings(_)
PairStrings(n) == IF n = 0 THEN {<< >>} ELSE {p \o s : p \in HexPairs, s \in PairStrings(n - 1)}

\* what may come before and after the groups: '#', blanks, a sign, one more digit, a letter that is no digit
HexPrefixes == {<< >>, <<"#">>, <<"#", "#">>, <<" ", "#">>, <<"+">>}

HexSuffixes == {<< >>, <<"F">>, <<"g">>, <<" ">>}

\* the tint strings of the parsing specification
HexInputs ==
    {p \o b \o s : p \in HexPrefixes, b \in UNION {PairStrings(n) : n \in 0..MaxHexPairs}, s \in HexSuffixes}

\* the main thread is about to run the tint step of an update, made on the main thread, of the
\* native glass view registered for "main"; the tint string of the call is any of HexInputs
InitHex ==
    /\ glassAvail = TRUE
    /\ crateModule = "glass_effect"
    /\ macos26 = TRUE
    /\ glassViews = {}
    /\ nextViewId = 0
    /\ freed = {}
    /\ ref = NoRef
    /\ selectors = {"set_variant:"}
    /\ views = {GlassViewEntry("main", 1, NoHandle)}
    /\ lockOwner = "none"
    /\ poisoned = FALSE
    /\ nsviews = apply_corner_radius(
                     [set_variant("NativeGlassBackend", NewView(<< >>, "NSGlassEffectView", "main"), 1, 0)
                          EXCEPT ![1].wantsLayer = TRUE, ![1].masksToBounds = TRUE,
                                 ![1].superview = ContentView("main")],
                     1, 0)
    /\ subviews = [l \in Labels |-> IF l = "main" THEN <<1, WebView>> ELSE <<WebView>>]
    /\ mainQueue = << >>
    /\ exec = [t \in Threads |-> IF t = MainThread
                                 THEN [owner |-> MainThread, kind |-> "apply", step |-> "tint",
                                       glass |-> 1, tint |-> NoHandle]
                                 ELSE NoTask]
    /\ chan = [t \in Threads |-> << >>]
    /\ \E h \in HexInputs :
           th = [t \in Threads |->
                    IF t = MainThread
                    THEN [IdleThread EXCEPT !.pc = "update_wait", !.label = "main", !.path = "update",
                                            !.glass = 1, !.ran = TRUE,
                                            !.config = [DefaultConfig EXCEPT !.tint_color = <<h>>]]
                    ELSE IdleThread]
    /\ window = [l \in Labels |-> "ok"]
    /\ calls = 2
    /\ solo = "none"
    /\ pre = NoSnapshot
    /\ popped = {}
    /\ inserted = <<1>>
    /\ last = NoLast
    /\ run = [l \in Labels |-> BrokenRun]

NextHex == StepTint(MainThread)

\* the tint step of apply_glass_config on every tint string of HexInputs
HexSpec == InitHex /\ [][NextHex]_vars

TypeOK ==
    /\ lockOwner \in Threads \cup {"none"}
    /\ calls \in 0..MaxCalls
    /\ \A t \in Threads : th[t].pc \in {"idle", "contains", "create_start", "create_wait", "insert",
                                        "update_start", "get", "update_dispatch", "update_wait",
                                        "update_tint", "remove", "remove_dispatch", "remove_wait", "probe_wait",
                                        "aborted"}


\* ------------------------------------------------------------------------
\* Properties
\* ------------------------------------------------------------------------

\* the registry entries stored under a label
EntriesOf(label) == {e \in views : e.label = label}

\* the view is a subview of the root content view of the label's window
AttachedTo(v, label) ==
    /\ nsviews[v].superview = ContentView(label)
    /\ \E i \in 1..Len(subviews[label]) : subviews[label][i] = v

\* a handle stored in some registry entry
Registered(h) == \E e \in views : e.glass_view = h \/ e.tint_overlay = h

\* positions of inserted whose view was created for the label
InsertsOf(label) == {i \in 1..Len(inserted) : nsviews[inserted[i]].window = label}

\* C1: when Create-path calls for one label have each inserted their own view and no remove has taken
\* any of them out, the registry holds a single entry for the label, it references the view inserted
\* last, and every view inserted earlier is still attached to the window although no registry entry
\* references it.
C1_LastInsertWins ==
    \A l \in Labels :
        (InsertsOf(l) # {} /\ \A i \in InsertsOf(l) : inserted[i] \notin popped) =>
            /\ Cardinality(EntriesOf(l)) = 1
            /\ \A e \in EntriesOf(l) : \A i \in InsertsOf(l) :
                   \/ e.glass_view = inserted[i] /\ \A j \in InsertsOf(l) : j <= i
                   \/ /\ e.glass_view # inserted[i]
                      /\ \E j \in InsertsOf(l) : j > i
                      /\ AttachedTo(inserted[i], l)
                      /\ ~Registered(inserted[i])

\* C1 witness: only two calls were ever issued, both ran the Create path for "main" at the same time,
\* both views are attached, the registry references the second and the first is orphaned.
C1_Witness ==
    /\ calls = 2
    /\ AllIdle
    /\ Len(inserted) = 2
    /\ inserted[1] # inserted[2]
    /\ EntriesOf("main") # {}
    /\ \A e \in EntriesOf("main") : e.glass_view = inserted[2]
    /\ AttachedTo(inserted[1], "main")
    /\ AttachedTo(inserted[2], "main")
    /\ ~Registered(inserted[1])


\* C2: a remove that runs alone on a label with no entry returns Ok, hands no closure to the main
\* thread and leaves the registry and the view tree as they were; after any remove that runs alone
\* the label has no entry, so a second remove in a row finds no entry and changes nothing more.
C2_RemoveIdempotent ==
    (AllIdle /\ last.solo /\ last.path = "remove") =>
        /\ last.status = "Ok"
        /\ ~MapContainsKey(views, last.label)
        /\ ~MapContainsKey(pre.views, last.label) =>
               (~last.ran /\ views = pre.views /\ nsviews = pre.nsviews /\ subviews = pre.subviews)

\* C2 witness: a remove has just run alone on a label whose entry an earlier remove had already
\* taken out (views exist, detached), and nothing was dispatched.
C2_Witness ==
    /\ AllIdle /\ last.solo /\ last.path = "remove" /\ last.status = "Ok"
    /\ ~MapContainsKey(pre.views, last.label)
    /\ ~last.ran
    /\ popped # {}
    /\ nsviews = pre.nsviews

\* the enable calls of a run are as the original statement of C3 describes them
RunIsCreateThenUpdates(l) ==
    /\ run[l].paths[1] = "create"
    /\ \A i \in 2..Len(run[l].paths) : run[l].paths[i] = "update"
    /\ Cardinality(EntriesOf(l)) = 1
    /\ \A e \in EntriesOf(l) : e.glass_view = run[l].first
    /\ Cardinality(GlassViewsOf(nsviews, l)) = run[l].base + 1

C4_DisableThenEnable ==
    /\ \A l \in Labels :
           (AllIdle /\ ~run[l].broken /\ run[l].afterRemove) =>
               IF run[l].paths = << >>
               THEN EntriesOf(l) = {}
               ELSE /\ run[l].paths[1] = "create"
                    /\ Cardinality(GlassViewsOf(nsviews, l)) = run[l].base + 1
                    /\ Cardinality(EntriesOf(l)) = 1
                    /\ \A e \in EntriesOf(l) : e.glass_view = run[l].first /\ e.glass_view \notin popped
    /\ \A h \in popped : ~Registered(h)

\* C4 witness: enable, disable, enable on "main": the entry now references a second view.
C4_Witness ==
    /\ AllIdle /\ ~run["main"].broken /\ run["main"].afterRemove
    /\ run["main"].paths = <<"create">>
    /\ popped # {}
    /\ \E e \in EntriesOf("main") : e.glass_view \notin popped /\ \A h \in popped : h < e.glass_view

\* C5: a closure that touches native views is only ever executed by the main thread, whichever
\* thread made the call.
C5_ThreadAffinity == \A t \in Threads : exec[t] # NoTask => t = MainThread

\* C5 witness: the main thread is attaching the view of a create call made by a worker.
C5_Witness ==
    /\ exec[MainThread].owner \in Threads \ {MainThread}
    /\ exec[MainThread].step = "attach"
    /\ th[exec[MainThread].owner].pc = "create_wait"


\* the positions at which a caller is inside run_on_main_sync
Waits == {"create_wait", "update_wait", "remove_wait", "probe_wait"}

\* the closure submitted by thread t is still in the main queue
Queued(t) == \E i \in 1..Len(mainQueue) : mainQueue[i].owner = t

\* run_on_main_sync as seen in one state
C6_State ==
    /\ ~Queued(MainThread)
    /\ th[MainThread].pc \in Waits => (exec[MainThread].owner = MainThread \/ chan[MainThread] # << >>)
    /\ \A t \in Threads \ {MainThread} :
           th[t].pc \in Waits => (Queued(t) \/ exec[MainThread].owner = t \/ chan[t] # << >>)
    /\ \A t \in Threads :
           /\ chan[t] # << >> => (chan[t] = th[t].done /\ ~Queued(t) /\ \A u \in Threads : exec[u].owner # t)
           /\ th[t].got # << >> => th[t].got = th[t].done

\* a caller leaves run_on_main_sync only with the value its closure produced
C6_Resume ==
    \A t \in Threads :
        (th[t].pc \in Waits /\ th'[t].pc \notin Waits) => (th[t].done # << >> /\ chan[t] = th[t].done)

\* C6: run_on_main_sync is synchronous: work submitted on the main thread is never enqueued, it runs
\* in place; work submitted elsewhere is enqueued on the main queue, and the caller leaves the wait
\* only after the main thread has finished the closure, with exactly the value the closure produced.
C6_Synchronous == [][C6_State' /\ C6_Resume]_vars

\* C6 witness, worker side: a worker has resumed from run_on_main_sync with the handles its creation
\* closure produced on the main thread.
C6_Witness ==
    \E t \in Threads \ {MainThread} :
        /\ th[t].pc = "insert"
        /\ th[t].got # << >>
        /\ th[t].got = th[t].done
        /\ th[t].glass = th[t].done[1].glass
        /\ th[MainThread].pc \in Waits
        /\ exec[MainThread].owner = MainThread

\* a worker stays blocked in recv for as long as its closure has not been run to its end
C7_NoTimeout ==
    \A t \in Threads \ {MainThread} :
        (th[t].pc \in Waits /\ th[t].done = << >>) => th'[t].pc = th[t].pc

\* C7: with a main thread that keeps draining its queue, every public call made on any thread
\* returns in the end; there is no timeout: a worker whose closure the main thread has not run
\* stays in the call.
C7_EventuallyReturns ==
    /\ \A t \in Threads : (th[t].pc # "idle") ~> (th[t].pc = "idle")
    /\ [][C7_NoTimeout]_vars

\* C7 witness: a worker is blocked on a closure that waits in the queue behind the call the main
\* thread is busy with.
C7_Witness ==
    /\ th["w1"].pc \in Waits
    /\ th["w1"].done = << >>
    /\ Queued("w1")
    /\ th[MainThread].pc # "idle"

\* at most one entry per label, and a thread is inside a registry call exactly while it holds the lock
C8_State ==
    /\ \A e1 \in views : \A e2 \in views : e1.label = e2.label => e1 = e2
    /\ \A t \in Threads : th[t].pc \in {"contains", "insert", "get", "update_tint", "remove"} <=> lockOwner = t

\* the map changes only in the single step in which the lock holder performs its call and unlocks
C8_Change ==
    views' # views =>
        /\ lockOwner \in Threads
        /\ lockOwner' = "none"
        /\ th[lockOwner].pc \in {"insert", "update_tint", "remove"}
        /\ th'[lockOwner].pc # th[lockOwner].pc

\* C8: the registry holds at most one entry per label in every reachable state, and every registry
\* call takes effect in one step of the thread that holds the exclusive lock.
C8_OneEntryAtomicCalls == [][C8_State' /\ C8_Change]_vars

\* C8 witness: an insert is about to overwrite the entry already stored under the same label.
C8_Witness ==
    \E t \in Threads :
        /\ th[t].pc = "insert"
        /\ lockOwner = t
        /\ MapContainsKey(views, th[t].label)
        /\ \E u \in Threads \ {t} : th[u].pc \in {"update_start", "create_wait", "update_wait"}

\* the detaching closure only works on handles that registry.remove has already taken out
C9_PopThenDetach ==
    \A t \in Threads : exec[t].kind = "remove" =>
        /\ exec[t].glass \in popped
        /\ exec[t].tint # NoHandle => exec[t].tint \in popped
        /\ t = MainThread

\* when the glass view is about to be detached, the overlay of the popped entry is already detached
C9_OverlayFirst ==
    \A t \in Threads : (exec[t].kind = "remove" /\ exec[t].step = "rm_glass" /\ exec[t].tint # NoHandle) =>
        /\ nsviews[exec[t].tint].superview = NoHandle
        /\ nsviews[exec[t].glass].superview # NoHandle

\* C9 as stated: remove pops the entry, then detaches the overlay and then the glass view on the main
\* thread, and from the pop on no popped handle can be found in the registry.
C9_Original ==
    /\ C9_PopThenDetach
    /\ C9_OverlayFirst
    /\ \A h \in popped : ~Registered(h)

\* the creation closure has got as far as its statement order prescribes, and no further
C10_InOrder ==
    \A t \in Threads : (exec[t].kind = "create" /\ exec[t].step # "create_view") =>
        LET g == exec[t].glass
            cfg == th[exec[t].owner].config
        IN /\ exec[t].step = "corner_radius" => nsviews[g].lastOp = "createView"
           /\ exec[t].step = "tint" => (nsviews[g].lastOp = "cornerRadius" /\ nsviews[g].cornerRadius = cfg.corner_radius)
           /\ exec[t].step = "variant" => nsviews[g].lastOp \in {"applyTint", "clearTint"}
           /\ exec[t].step = "attach" => nsviews[g].lastOp = "setVariant"
           /\ nsviews[g].superview = NoHandle
           /\ ~Registered(g)

\* an entry is in the registry only with a glass view that is configured and attached
C10_EntryReady ==
    /\ \A e \in views :
           /\ e.glass_view \in 1..Len(nsviews)
           /\ nsviews[e.glass_view].wantsLayer /\ nsviews[e.glass_view].masksToBounds
           /\ nsviews[e.glass_view].lastOp \notin {"createView", "removeFromSuperview"}
           /\ AttachedTo(e.glass_view, e.label)
    /\ \A t \in Threads : th[t].pc = "insert" =>
           /\ nsviews[th[t].glass].lastOp = "addSubview"
           /\ nsviews[th[t].glass].cornerRadius = th[t].config.corner_radius
           /\ AttachedTo(th[t].glass, th[t].label)

\* addSubview puts the new view below everything the content view already holds
C10_Below ==
    \A t \in Threads : (exec[t].step = "attach" /\ exec'[t].step # "attach") =>
        subviews'[th[exec[t].owner].label] = <<exec[t].glass>> \o subviews[th[exec[t].owner].label]

\* C10: the Create path runs createView, corner radius, tint, variant, insertion below all existing
\* content and only then the registry insert, so an entry that is visible in the registry always
\* has a glass view that is created, configured and attached.
C10_CreateOrder == [][C10_InOrder' /\ C10_EntryReady' /\ C10_Below]_vars

\* C10 witness: a tinted view, created and configured by the fallback backend, sits below the webview
\* and its create call holds the lock for the registry insert.
C10_Witness ==
    \E t \in Threads :
        /\ th[t].pc = "insert"
        /\ th[t].tint # NoHandle
        /\ ~MapContainsKey(views, th[t].label)
        /\ subviews[th[t].label] = <<th[t].glass, WebView>>
        /\ nsviews[th[t].glass].cornerRadius = 12


\* C11 as stated: a create on a window whose native root view cannot be resolved, for either
\* reason, returns WindowNotFound.
C11_Original ==
    (AllIdle /\ last.solo /\ last.path = "create" /\ window[last.label] # "ok") =>
        last.status = "WindowNotFound"

\* C11 amended: a create returns WindowNotFound, before anything is dispatched, when the native
\* window reference cannot be obtained, and ViewCreationFailed, from the main-thread closure, when
\* the window has no root content view; either way no view is created and the registry and the
\* view tree stay as they were; on a window that resolves the create returns Ok.
C11_CreateFailures ==
    (AllIdle /\ last.solo /\ last.path = "create") =>
        /\ window[last.label] = "no_ns_window" => (last.status = "WindowNotFound" /\ ~last.ran)
        /\ window[last.label] = "no_content_view" => (last.status = "ViewCreationFailed" /\ last.ran)
        /\ window[last.label] # "ok" =>
               (views = pre.views /\ nsviews = pre.nsviews /\ subviews = pre.subviews)
        /\ window[last.label] = "ok" => last.status = "Ok"

\* C11 witness: a create that ran alone on a window without a content view has returned
\* ViewCreationFailed.
C11_Witness ==
    /\ AllIdle /\ last.solo /\ last.path = "create"
    /\ window[last.label] = "no_content_view"
    /\ last.status = "ViewCreationFailed"
    /\ views = {}


\* the labels that have an entry
KeysOf(m) == {e.label : e \in m}

\* one step of a call on the Update path
C12_Step ==
    /\ \A t \in Threads :
           (th[t].pc \in {"update_start", "get", "update_dispatch", "update_wait"} /\ th'[t] # th[t]) =>
               views' = views
    /\ \A t \in Threads :
           (th[t].pc = "update_tint" /\ th'[t].pc # "update_tint") =>
               /\ KeysOf(views') = KeysOf(views)
               /\ \A n \in views' : \E e \in views :
                      /\ e.label = n.label
                      /\ e.glass_view = n.glass_view
                      /\ e.label # th[t].label => e = n
    /\ \A t \in Threads :
           (exec[t].kind = "apply" /\ exec'[t] # exec[t]) =>
               /\ \A l \in Labels : GlassViewsOf(nsviews', l) = GlassViewsOf(nsviews, l)
               /\ subviews' = subviews

\* the state after an update that ran alone
C12_After ==
    (AllIdle /\ last.solo /\ last.path = "update") =>
        /\ last.status = "Ok"
        /\ KeysOf(views) = KeysOf(pre.views)
        /\ \A e \in views : \E p \in pre.views :
               p.label = e.label /\ p.glass_view = e.glass_view /\ (e.label # last.label => p = e)
        /\ \A l \in Labels : GlassViewsOf(nsviews, l) = GlassViewsOf(pre.nsviews, l)

\* C12: the Update path changes nothing in the registry but the overlay field of the label's entry:
\* it creates no effect view, keeps the entry's glass handle, adds and removes no label and leaves
\* the entries of the other labels as they were.
C12_UpdateOnlyOverlay == [][C12_Step /\ C12_After']_vars

\* C12 witness: with entries for two labels, an update that ran alone has given the entry of its
\* label an overlay it did not have before.
C12_Witness ==
    /\ AllIdle /\ last.solo /\ last.path = "update" /\ last.status = "Ok"
    /\ KeysOf(views) = Labels
    /\ \E e \in views : \E p \in pre.views :
           /\ e.label = last.label /\ p.label = last.label
           /\ p.tint_overlay = NoHandle
           /\ e.tint_overlay # NoHandle


\* the config carries a tint string that color_from_hex turns into a colour
ParsedTint(config) ==
    config.tint_color # << >> /\ color_from_hex(config.tint_color[1]) # << >>

\* C13: an entry has an overlay handle only under the fallback backend, and the overlay is a plain
\* view on which a parsed colour was set; after a create or update that ran alone and returned Ok,
\* the label's entry has an overlay exactly if the backend is the fallback one and the call's tint
\* parsed: with the native glass backend, with no tint and with an unparsable tint it has none.
C13_OverlayOnlyFallbackTint ==
    /\ \A e \in views : e.tint_overlay # NoHandle =>
           /\ get_backend = "VisualEffectBackend"
           /\ e.tint_overlay \in 1..Len(nsviews)
           /\ nsviews[e.tint_overlay].class = "NSView"
           /\ nsviews[e.tint_overlay].backgroundColor # << >>
    /\ (AllIdle /\ last.solo /\ last.path \in {"create", "update"} /\ last.status = "Ok") =>
           /\ EntriesOf(last.label) # {}
           /\ \A e \in EntriesOf(last.label) :
                  e.tint_overlay # NoHandle <=> (get_backend = "VisualEffectBackend" /\ ParsedTint(last.config))

\* C13 witness: under the fallback backend an update with an unparsable tint has run alone on an
\* entry that had an overlay, and the entry has none now.
C13_Witness ==
    /\ AllIdle /\ last.solo /\ last.path = "update" /\ last.status = "Ok"
    /\ get_backend = "VisualEffectBackend"
    /\ last.config.tint_color = <<NotAColor>>
    /\ \E p \in pre.views : p.label = last.label /\ p.tint_overlay # NoHandle
    /\ \A e \in EntriesOf(last.label) : e.tint_overlay = NoHandle


\* C14: between calls, whenever a label's entry has an overlay, the overlay's corner radius is the
\* one most recently set on the entry's glass view, also when a later update reuses the overlay
\* with another radius.
C14_CornerRadiusMirrored ==
    AllIdle =>
        \A e \in views : e.tint_overlay # NoHandle =>
            /\ nsviews[e.tint_overlay].cornerRadius = nsviews[e.glass_view].cornerRadius
            /\ nsviews[e.tint_overlay].masksToBounds
            /\ (last.solo /\ last.label = e.label /\ last.path \in {"create", "update"}) =>
                   nsviews[e.tint_overlay].cornerRadius = last.config.corner_radius

\* C14 witness: an update has reused an overlay that had radius 0 and the overlay has radius 12 now.
C14_Witness ==
    /\ AllIdle /\ last.solo /\ last.path = "update" /\ last.status = "Ok"
    /\ \E e \in EntriesOf(last.label) :
           /\ e.tint_overlay # NoHandle
           /\ e.tint_overlay \in 1..Len(pre.nsviews)
           /\ pre.nsviews[e.tint_overlay].cornerRadius = 0
           /\ nsviews[e.tint_overlay].cornerRadius = 12
           /\ nsviews[e.glass_view].cornerRadius = 12


\* the same config with the tint left out
WithoutTint(config) == [config EXCEPT !.tint_color = << >>]

\* C15: a tint string that does not parse is not an error: the tint step of apply_glass_config does
\* with it exactly what it does with no tint at all (it clears the tint and returns no overlay),
\* and a create or update that ran alone with such a tint on a window that resolves returns Ok and
\* leaves the entry without overlay.
C15_UnparsableTintClears ==
    /\ \A t \in Threads :
           (exec[t].step = "tint" /\ th[exec[t].owner].config.tint_color = <<NotAColor>>) =>
               LET cfg == th[exec[t].owner].config
               IN /\ apply_tint_config(nsviews, exec[t].glass, cfg, exec[t].tint)
                         = apply_tint_config(nsviews, exec[t].glass, WithoutTint(cfg), exec[t].tint)
                  /\ tint_overlay_of(nsviews, exec[t].glass, cfg, exec[t].tint) = NoHandle
                  /\ tint_overlay_of(nsviews, exec[t].glass, WithoutTint(cfg), exec[t].tint) = NoHandle
    /\ (AllIdle /\ last.solo /\ last.path \in {"create", "update"} /\ last.config.tint_color = <<NotAColor>>
           /\ window[last.label] = "ok") =>
           /\ last.status = "Ok"
           /\ \A e \in EntriesOf(last.label) :
                  /\ e.tint_overlay = NoHandle
                  /\ nsviews[e.glass_view].tintColor = << >>
                  /\ \A v \in 1..Len(nsviews) : nsviews[v].superview # e.glass_view

\* C15 witness: under the native glass backend an update with an unparsable tint has run alone on a
\* view that had a tint colour, and the colour is gone.
C15_Witness ==
    /\ AllIdle /\ last.solo /\ last.path = "update" /\ last.status = "Ok"
    /\ last.config.tint_color = <<NotAColor>>
    /\ get_backend = "NativeGlassBackend"
    /\ pre.nsviews[last.glass].tintColor # << >>
    /\ nsviews[last.glass].tintColor = << >>


\* the tint step of the parsing specification has run
HexDone == exec[MainThread].step = "variant"

\* the string color_from_hex was given, and what it returned as seen on the glass view
HexInput == th[MainThread].config.tint_color[1]

HexResult == IF nsviews[1].lastOp = "applyTint" THEN <<nsviews[1].tintColor>> ELSE << >>

\* the string without one leading '#'
StripOneHash(s) == IF s # << >> /\ Head(s) = "#" THEN Tail(s) ELSE s

\* exactly 6 or exactly 8 hexadecimal digits
IsRGBDigits(s) == Len(s) \in {6, 8} /\ \A i \in 1..Len(s) : IsHexDigit(s[i])

\* the value in 0..255 of the two digits at positions i and i + 1
PairValue(s, i) == 16 * HexValue(s[i]) + HexValue(s[i + 1])

\* C16 as stated: color_from_hex returns a colour exactly for the strings that are, after one
\* leading '#' is stripped, 6 or 8 hexadecimal digits, and no colour for every other string.
C16_Original ==
    HexDone => (HexResult # << >> <=> IsRGBDigits(StripOneHash(HexInput)))

\* C17: for RRGGBB and RRGGBBAA, with or without the leading '#', color_from_hex returns the
\* channels given by the digit pairs, each over 255, with alpha 255 for six digits, and the 32-bit
\* value never overflows.
C17_Channels ==
    (HexDone /\ IsRGBDigits(StripOneHash(HexInput))) =>
        LET d == StripOneHash(HexInput)
        IN /\ HexResult = << <<PairValue(d, 1), PairValue(d, 3), PairValue(d, 5),
                               IF Len(d) = 6 THEN 255 ELSE PairValue(d, 7)>> >>
           /\ ~RadixFold(<<0, 0, FALSE>>, d)[3]
           /\ FromStrRadix16(d) # << >>

\* C17 witness: "#FF000080" has been parsed to red with alpha 128 over 255.
C17_Witness ==
    /\ HexDone
    /\ HexInput = RedHalf
    /\ HexResult = << <<255, 0, 0, 128>> >>

\* ------------------------------------------------------------------------
\* C18: a poisoned registry lock
\* ------------------------------------------------------------------------

\* a set_effect call that ran alone has returned and the lock is poisoned: as a call that ran alone
\* never finds the lock poisoned by another thread half-way, the lock was poisoned before it started
C18_CallOnPoisoned == poisoned /\ last.solo /\ last.path # "probe"

\* such a call returned RegistryLockFailed and left the registry and the views as they were
C18_State ==
    C18_CallOnPoisoned =>
        /\ last.status = "RegistryLockFailed"
        /\ views = pre.views
        /\ nsviews = pre.nsviews
        /\ subviews = pre.subviews

\* a poisoned lock stays poisoned, and the registry behind it no longer changes
C18_Step == poisoned => (poisoned' /\ views' = views)

\* C18: once the registry lock is poisoned, every set_effect call (create, update, remove) returns
\* RegistryLockFailed without panicking and without changing the registry or the view hierarchy,
\* and the registry never recovers from the poisoned state
C18_Original == [](C18_State) /\ [][C18_Step]_vars

\* the same for the calls of glass_effect/ alone, the implementation lib.rs compiles
C18_GlassEffectModule == [](crateModule = "glass_effect" => C18_State) /\ [][C18_Step]_vars

\* a call made on a poisoned lock has returned
C18_Witness == C18_CallOnPoisoned /\ crateModule = "glass_effect" /\ last.status = "RegistryLockFailed"

\* ------------------------------------------------------------------------
\* C19: isSupported
\* ------------------------------------------------------------------------

\* an is_supported call that ran alone has returned
C19_Probed == last.solo /\ last.path = "probe"

\* C19: isSupported returns true only if both the minimum OS version check and the availability
\* check of the NSGlassEffectView class hold, and false when either one fails
C19_Original == C19_Probed => (last.status = "true" <=> (macos26 /\ glassAvail))

\* the same for macos/glass_effect.rs alone, whose closure makes both checks
C19_MacosModule == (crateModule = "macos" /\ C19_Probed) => (last.status = "true" <=> (macos26 /\ glassAvail))

\* what glass_effect/mod.rs returns: the availability of the class, whatever the version check says
C19_GlassEffectModule == (crateModule = "glass_effect" /\ C19_Probed) => (last.status = "true" <=> glassAvail)

\* ------------------------------------------------------------------------
\* C20: a platform without native effect support
\* ------------------------------------------------------------------------

\* a command other than isSupported has returned on a build for another platform
C20_Returned == last.solo /\ last.path \in NotMacosCommands

\* C20: on a platform without native effect support every operation other than isSupported
\* returns success and changes nothing: set_effect, configure, setVariant, setScrim, setSubdued and
\* remove return Ok, addEffect returns the sentinel id -1 with no error, no registry entry is
\* created and no view is touched
C20_NoOps ==
    C20_Returned =>
        /\ last.status = "Ok"
        /\ last.path = "add_glass_effect" => last.glass = -1
        /\ views = {}
        /\ nsviews = << >>
        /\ subviews = [l \in Labels |-> <<WebView>>]
        /\ views = pre.views /\ nsviews = pre.nsviews /\ subviews = pre.subviews

\* addEffect with a corner radius and a tint has returned
C20_Witness ==
    /\ C20_Returned
    /\ last.path = "add_glass_effect"
    /\ last.config.corner_radius = 12
    /\ last.config.tint_color # << >>
    /\ last.glass = -1

\* ------------------------------------------------------------------------
\* C21: commands addressed to an unknown id
\* ------------------------------------------------------------------------

\* a command other than remove has returned that addressed an id with no entry when it was called:
\* an id never handed out, or one whose view was removed
C21_UnknownId ==
    /\ last.solo
    /\ last.path \in {"configure_glass", "set_variant", "set_scrim", "set_subdued"}
    /\ \A e \in pre.glassViews : e.id # last.glass

\* C21: setVariant (and likewise configure, setScrim, setSubdued) addressed to an id that addEffect
\* never returned, or that was already removed, fails with the error ViewNotFound carrying that id
\* and changes no state
C21_Original ==
    C21_UnknownId =>
        /\ last.status = "ViewNotFound"
        /\ glassViews = pre.glassViews
        /\ nsviews = pre.nsviews
        /\ subviews = pre.subviews

\* what holds of the source: the call fails with some variant of Error and changes no state
C21_FailsUnchanged ==
    C21_UnknownId =>
        /\ last.status \in ErrorKinds
        /\ glassViews = pre.glassViews
        /\ nsviews = pre.nsviews
        /\ subviews = pre.subviews

\* ------------------------------------------------------------------------
\* C22: backend selection
\* ------------------------------------------------------------------------

\* the closure the main thread is running, the call it belongs to, and the view it works on
Closure == exec[MainThread]

ClosureConfig == th[Closure.owner].config

\* backend.create_view has made a view: its class is the one of the backend for the capability of that moment
C22_CreateView ==
    (Closure.step = "create_view" /\ Len(nsviews') = Len(nsviews) + 1) =>
        nsviews'[Len(nsviews')].class = IF glassAvail THEN "NSGlassEffectView" ELSE "NSVisualEffectView"

\* the tint statement has run: with the class available the colour is set (or cleared) on the view
\* itself and no overlay is made or returned; without it the view's own tint is left alone and the
\* colour goes to an overlay (or the overlay is detached)
C22_Tint ==
    (Closure.step = "tint" /\ exec'[MainThread].step = "variant") =>
        LET g == Closure.glass
            o == exec'[MainThread].tint
        IN IF glassAvail
           THEN /\ nsviews'[g].tintColor =
                       (IF ParsedTint(ClosureConfig) THEN color_from_hex(ClosureConfig.tint_color[1])[1] ELSE << >>)
                /\ Len(nsviews') = Len(nsviews)
                /\ o = NoHandle
           ELSE /\ nsviews'[g].tintColor = nsviews[g].tintColor
                /\ IF ParsedTint(ClosureConfig)
                   THEN /\ o # NoHandle
                        /\ nsviews'[o].class = "NSView"
                        /\ nsviews'[o].superview = g
                        /\ nsviews'[o].backgroundColor = color_from_hex(ClosureConfig.tint_color[1])[1]
                   ELSE /\ o = NoHandle
                        /\ Closure.tint # NoHandle => nsviews'[Closure.tint].superview = NoHandle

\* the variant statement has run: only the native backend sends a setter, the fallback one leaves the view alone
C22_Variant ==
    (Closure.step = "variant" /\ exec'[MainThread].step # "variant") =>
        LET g == Closure.glass
        IN IF glassAvail /\ nsviews[g].class = "NSGlassEffectView" /\ selectors # {}
           THEN nsviews'[g].variant = ClosureConfig.variant
           ELSE nsviews'[g].variant = nsviews[g].variant /\ nsviews'[g].setter = nsviews[g].setter

\* C22: every backend call uses the native backend exactly if the NSGlassEffectView class is
\* available at the time of that call, else the fallback backend; the choice is made anew on every
\* call and is not stored with the registry entry, so a view created by one backend is configured
\* by whichever backend is selected at the later call
C22_SelectedPerCall == [][C22_CreateView /\ C22_Tint /\ C22_Variant]_vars

\* an update has returned that put a fallback overlay on a view the native backend had created
C22_Witness ==
    /\ last.solo /\ last.path = "update" /\ last.status = "Ok"
    /\ \E e \in views :
           /\ nsviews[e.glass_view].class = "NSGlassEffectView"
           /\ e.tint_overlay # NoHandle
           /\ nsviews[e.tint_overlay].superview = e.glass_view

\* ------------------------------------------------------------------------
\* C23: the variant under the fallback backend
\* ------------------------------------------------------------------------

\* the state of a native view, but for its handle and its window
ViewAttrs(v) ==
    [class |-> nsviews[v].class, attached |-> nsviews[v].superview # NoHandle,
     wantsLayer |-> nsviews[v].wantsLayer, cornerRadius |-> nsviews[v].cornerRadius,
     masksToBounds |-> nsviews[v].masksToBounds, tintColor |-> nsviews[v].tintColor,
     backgroundColor |-> nsviews[v].backgroundColor, variant |-> nsviews[v].variant,
     setter |-> nsviews[v].setter, lastOp |-> nsviews[v].lastOp]

\* the views made for a window, in the order of their creation
ViewsOf(label) == SelectSeq([v \in 1..Len(nsviews) |-> v], LAMBDA v : nsviews[v].window = label)

\* the registry state and the native view state of two windows are the same, handle for handle
SameState(a, b) ==
    /\ Len(ViewsOf(a)) = Len(ViewsOf(b))
    /\ \A i \in 1..Len(ViewsOf(a)) : ViewAttrs(ViewsOf(a)[i]) = ViewAttrs(ViewsOf(b)[i])
    /\ Len(subviews[a]) = Len(subviews[b])
    /\ Cardinality(EntriesOf(a)) = Cardinality(EntriesOf(b))
    /\ \A e \in EntriesOf(a) : \A f \in EntriesOf(b) :
           /\ \E i \in 1..Len(ViewsOf(a)) : ViewsOf(a)[i] = e.glass_view /\ ViewsOf(b)[i] = f.glass_view
           /\ (e.tint_overlay = NoHandle) = (f.tint_overlay = NoHandle)
           /\ e.tint_overlay # NoHandle =>
                  \E i \in 1..Len(ViewsOf(a)) : ViewsOf(a)[i] = e.tint_overlay /\ ViewsOf(b)[i] = f.tint_overlay

\* both runs have made the same number of calls, the second with variants of its own
C23_BothRan == AllIdle /\ last.solo /\ last.label = "aux"

\* C23: the variant is inert on the fallback backend: for any sequence of create and update
\* calls, two runs whose configs differ only in their variants end in the same registry state
\* and the same native view state
C23_VariantInert == (C23_BothRan /\ ~glassAvail) => SameState("main", "aux")

\* what the comparison tells apart: with the native backend the two runs end in different states
C23_NativeToo == C23_BothRan => SameState("main", "aux")

\* a create and an update have run in both runs, the last with different variants
C23_Witness ==
    /\ C23_BothRan
    /\ ~glassAvail
    /\ last.path = "update"
    /\ last.config.variant = 16
    /\ \E e \in EntriesOf("main") : nsviews[e.glass_view].lastOp = "setVariant"
    /\ \E e \in EntriesOf("aux") : e.tint_overlay # NoHandle

\* ------------------------------------------------------------------------
\* C24: handle validity
\* ------------------------------------------------------------------------

\* the handles the statement the main thread is about to run dereferences
Dereferenced(t) ==
    LET x == exec[t]
    IN (IF x.step = "create_view" THEN {NSWindow(th[x.owner].label)} ELSE {})
       \cup (IF x.step \in {"corner_radius", "tint", "variant", "attach", "rm_glass"} THEN {x.glass} ELSE {})
       \cup (IF x.step \in {"tint", "rm_tint"} /\ x.tint # NoHandle THEN {x.tint} ELSE {})

\* no registry entry references an object that no longer exists
C24_EntriesValid == \A e \in views : e.glass_view \notin freed /\ e.tint_overlay \notin freed

\* C24: every handle that create, update or remove dereferences on the main thread refers to a
\* native object that still exists at that moment, also after the host has torn a window down
\* without a remove, and no registry entry outlives the native view it references
C24_Original == (\A t \in Threads : Dereferenced(t) \cap freed = {}) /\ C24_EntriesValid

\* ------------------------------------------------------------------------
\* C25: the probing of the variant setters
\* ------------------------------------------------------------------------

\* the variant statement of the native backend runs on a glass view
C25_NativeVariantStep ==
    /\ Closure.step = "variant"
    /\ exec'[MainThread].step # "variant"
    /\ glassAvail
    /\ nsviews[Closure.glass].class = "NSGlassEffectView"

\* what the statement does to the view, as the setters the view took and the variant it has
C25_Step ==
    C25_NativeVariantStep =>
        LET g == Closure.glass
        IN /\ "set_variant:" \in selectors =>
                  nsviews'[g].setter = <<"set_variant:">> /\ nsviews'[g].variant = ClosureConfig.variant
           /\ ("set_variant:" \notin selectors /\ "setVariant:" \in selectors) =>
                  nsviews'[g].setter = <<"setVariant:">> /\ nsviews'[g].variant = ClosureConfig.variant
           /\ selectors = {} =>
                  nsviews'[g].setter = nsviews[g].setter /\ nsviews'[g].variant = nsviews[g].variant
           /\ Len(nsviews'[g].setter) <= 1
           /\ exec'[MainThread].step # "aborted"

\* C25: the native set_variant probes the setters in a fixed order: it invokes 'set_variant:' if
\* the view responds to it and then does not try the public one; otherwise it invokes
\* 'setVariant:' if the view responds to it; if the view responds to neither it does nothing.  At
\* most one setter is invoked per call, and no outcome is reported as an error.
C25_ProbeOrder == [][C25_Step]_vars

\* a call has returned Ok on a system where the view responds to both setters, and the view took the private one
C25_Witness ==
    /\ selectors = VariantSetters
    /\ last.solo /\ last.path = "update" /\ last.status = "Ok"
    /\ \E e \in views : nsviews[e.glass_view].setter = <<"set_variant:">> /\ nsviews[e.glass_view].variant = 16

\* ------------------------------------------------------------------------
\* C26: one overlay under the fallback backend
\* ------------------------------------------------------------------------

\* the plain views attached to a view as its overlays
OverlaysOn(ns, v) == {o \in 1..Len(ns) : ns[o].class = "NSView" /\ ns[o].superview = v}

\* a create or update with a parsable tint has run alone under the fallback backend and returned Ok
C26_TintedCall ==
    /\ AllIdle /\ last.solo /\ last.path \in {"create", "update"} /\ last.status = "Ok"
    /\ ~glassAvail
    /\ ParsedTint(last.config)

\* the overlay the label's entry had before the call, NoHandle if it had none or there was no entry
C26_OverlayBefore ==
    IF \E p \in pre.views : p.label = last.label /\ p.tint_overlay # NoHandle
    THEN (CHOOSE p \in pre.views : p.label = last.label).tint_overlay
    ELSE NoHandle

\* C26: under the fallback backend, in calls made one after another on a label, each with a
\* parsable tint, exactly one overlay is created: the first tinted call creates it and attaches it
\* to the glass view, every later tinted call reuses it, so that the entry's overlay handle stays
\* the same, and the glass view never has more than one overlay attached
C26_OneOverlay ==
    /\ C26_TintedCall =>
           \A e \in EntriesOf(last.label) :
               /\ e.tint_overlay # NoHandle
               /\ OverlaysOn(nsviews, e.glass_view) = {e.tint_overlay}
               /\ IF C26_OverlayBefore # NoHandle
                  THEN /\ e.tint_overlay = C26_OverlayBefore
                       /\ Len(nsviews) = Len(pre.nsviews)
                  ELSE /\ e.tint_overlay \notin 1..Len(pre.nsviews)
                       /\ Len(nsviews) = Len(pre.nsviews) + (IF last.path = "create" THEN 2 ELSE 1)
    /\ AllIdle => \A v \in 1..Len(nsviews) : Cardinality(OverlaysOn(nsviews, v)) <= 1

\* a create and two updates, each with a tint, have run on a label and the overlay of the create is still the entry's
C26_Witness ==
    /\ C26_TintedCall
    /\ last.path = "update"
    /\ ~run[last.label].broken
    /\ Len(run[last.label].paths) >= 3
    /\ run[last.label].paths[1] = "create"
    /\ C26_OverlayBefore # NoHandle
    /\ \A e \in EntriesOf(last.label) :
           e.tint_overlay = C26_OverlayBefore /\ e.tint_overlay = e.glass_view + 1

\* ------------------------------------------------------------------------
\* C27: clearing the tint under the fallback backend
\* ------------------------------------------------------------------------

\* an update without a parsable tint has run alone under the fallback backend on an entry with an overlay
C27_Cleared ==
    /\ AllIdle /\ last.solo /\ last.path = "update" /\ last.status = "Ok"
    /\ ~glassAvail
    /\ ~ParsedTint(last.config)
    /\ C26_OverlayBefore # NoHandle

\* the overlay is off the glass view and out of the entry
C27_State ==
    C27_Cleared =>
        /\ nsviews[C26_OverlayBefore].superview = NoHandle
        /\ \A e \in EntriesOf(last.label) :
               e.tint_overlay = NoHandle /\ OverlaysOn(nsviews, e.glass_view) = {}

\* the plain views that are on no view
DetachedOverlays(ns) == {o \in 1..Len(ns) : ns[o].class = "NSView" /\ ns[o].superview = NoHandle}

\* a detached overlay stays detached and is written into no entry (the entry it came from holds it
\* until the call that detached it has stored None)
C27_Step ==
    \A o \in DetachedOverlays(nsviews) :
        /\ o \in DetachedOverlays(nsviews')
        /\ \A e \in views' : e.tint_overlay = o => e \in views

\* C27: under the fallback backend, after an update whose config has no tint (or an unparsable
\* one) on an entry that has an overlay, the overlay is detached from the glass view and the
\* entry's overlay field is None; a later tinted update creates a new overlay and never reuses
\* the detached one
C27_ClearThenNew == [](C27_State) /\ [][C27_Step]_vars

\* a tinted update has made a new overlay for an entry whose earlier overlay lies detached
C27_Witness ==
    /\ C26_TintedCall
    /\ last.path = "update"
    /\ C26_OverlayBefore = NoHandle
    /\ \E e \in EntriesOf(last.label) :
           /\ e.tint_overlay # NoHandle
           /\ \E o \in DetachedOverlays(nsviews) : o < e.tint_overlay /\ o > e.glass_view

\* ------------------------------------------------------------------------
\* C28: the registry as a map
\* ------------------------------------------------------------------------

\* what the registry holds under a key, read off its entries: << >> if none
Held(label) == {<<e.glass_view, e.tint_overlay>> : e \in EntriesOf(label)}

\* C28: over every sequence of registry calls on a bounded set of keys and handles the registry
\* behaves as a reference map: insert overwrites any entry of the key, get and contains report the
\* current entry, remove deletes and returns the prior entry or None, update_tint changes only the
\* overlay field of an existing entry and does nothing when the key is absent
C28_RefinesMap ==
    /\ \A l \in Labels : Held(l) = {ref.map[l][i] : i \in 1..Len(ref.map[l])}
    /\ ref.returned = ref.expected

\* update_tint has been called for a key without entry while the other key has one with an overlay
C28_Witness ==
    /\ ref.op = "update_tint"
    /\ ref.map["main"] = << >>
    /\ ref.map["aux"] = << <<1, 2>> >>
    /\ views = {GlassViewEntry("aux", 1, 2)}

\* ------------------------------------------------------------------------
\* C29: the registry lock and the dispatcher
\* ------------------------------------------------------------------------

\* the positions of a call that are inside one registry method
RegistryCalls == {"contains", "insert", "get", "update_tint", "remove"}

\* the lock is held only inside a registry method, never by a thread that the dispatcher blocks
C29_State == \A t \in Threads : lockOwner = t => (th[t].pc \in RegistryCalls /\ th[t].pc \notin Waits)

\* the next step of the thread that holds the lock ends the registry method and releases the lock
C29_Step == \A t \in Threads : (lockOwner = t /\ th'[t] # th[t]) => lockOwner' # t

\* a worker is blocked in run_on_main_sync: the main thread has not finished its closure
WaitsForMain(t) == t # MainThread /\ th[t].pc \in Waits /\ th[t].done = << >>

\* thread t is at a lock() of the registry mutex that another thread holds
WaitsForLock(t) ==
    /\ lockOwner \notin {"none", t}
    /\ \/ th[t].pc = "update_start"
       \/ th[t].pc \in {"create_wait", "update_wait"} /\ recv_ready(t)

\* no worker waits for the main thread while the main thread waits for a lock whose holder the
\* dispatcher blocks
C29_NoDeadlock ==
    ~ \E w \in Threads :
          /\ WaitsForMain(w)
          /\ WaitsForLock(MainThread)
          /\ th[lockOwner].pc \in Waits

\* C29: the registry lock is held only for the duration of a single registry call and never while
\* a thread is blocked in run_on_main_sync; no reachable state is a deadlock in which a worker waits
\* for the main thread while the main thread waits for the lock, set_liquid_glass_effect called on
\* the main thread while workers are in the middle of their calls included.
C29_LockPerCall == [](C29_State /\ C29_NoDeadlock) /\ [][C29_Step]_vars

\* C29 witness: the main thread is inside a registry method of its own set_liquid_glass_effect call,
\* holding the lock, while a worker is blocked in run_on_main_sync on a closure still in the queue.
C29_Witness ==
    /\ lockOwner = MainThread
    /\ th[MainThread].pc \in RegistryCalls
    /\ \E t \in Threads \ {MainThread} : th[t].pc \in Waits /\ Queued(t) /\ th[t].done = << >>

\* ------------------------------------------------------------------------
\* C30: attached effect views and registry entries
\* ------------------------------------------------------------------------

\* the effect views (of either backend) that are attached to the content view of a window
EffectViewsOn(label) ==
    {v \in 1..Len(nsviews) :
        /\ nsviews[v].class \in {"NSGlassEffectView", "NSVisualEffectView"}
        /\ \/ nsviews[v].superview = ContentView(label)
           \/ \E i \in 1..Len(subviews[label]) : subviews[label][i] = v}

\* C30: when every set_liquid_glass_effect call returns before the next one starts, after any
\* sequence of enabling and disabling calls over the windows the effect views attached to a window
\* are exactly the primary handles of the registry entries of that window, and there is at most
\* one: no view is attached without being registered, no entry references a detached view.
C30_AttachedIffRegistered ==
    AllIdle =>
        \A l \in Labels :
            /\ Cardinality(EntriesOf(l)) <= 1
            /\ EffectViewsOn(l) = {e.glass_view : e \in EntriesOf(l)}
            /\ \A e \in EntriesOf(l) : AttachedTo(e.glass_view, l)

\* C30 witness: after calls on both windows one window has its effect disabled again (its view is
\* detached and its entry gone) while the other has one attached view, the one its entry holds.
C30_Witness ==
    /\ AllIdle
    /\ EntriesOf("main") = {}
    /\ EffectViewsOn("main") = {}
    /\ \E v \in 1..Len(nsviews) : nsviews[v].window = "main" /\ nsviews[v].lastOp = "removeFromSuperview"
    /\ \E e \in views : e.label = "aux" /\ EffectViewsOn("aux") = {e.glass_view}

\* ------------------------------------------------------------------------
\* C31: an update racing with a remove
\* ------------------------------------------------------------------------

\* a view that remove_glass_effect has popped from the registry and detached from its superview
Removed(v) == v \in popped /\ nsviews[v].superview = NoHandle

\* no apply_glass_config closure has statements left to run on views that a remove has popped
\* and detached
C31_ApplyOnLive ==
    \A t \in Threads : (exec[t].kind = "apply" /\ exec[t].step \in {"corner_radius", "tint", "variant"}) =>
        /\ ~Removed(exec[t].glass)
        /\ exec[t].tint # NoHandle => ~Removed(exec[t].tint)

\* after a single create, an overlay attached to a view that a remove has popped and detached
\* was popped with it
C31_NoUnrecordedOverlay ==
    Cardinality({v \in 1..Len(nsviews) : nsviews[v].class \in {"NSGlassEffectView", "NSVisualEffectView"}}) = 1 =>
        \A g \in popped : Removed(g) => \A o \in OverlaysOn(nsviews, g) : o \in popped

\* C31 as stated: while no window is torn down, the main-thread work of an update (corner radius,
\* tint, overlay creation, variant) is never applied to a glass view or overlay whose entry a
\* concurrent remove has popped and whose views it has detached, and the update attaches no
\* overlay that no registry entry records.
C31_Original == C31_ApplyOnLive /\ C31_NoUnrecordedOverlay

\* ------------------------------------------------------------------------
\* C32, C33: updates racing with updates under the fallback backend
\* ------------------------------------------------------------------------

\* one create has run and no remove: the calls that have raced are updates of one entry (while an
\* update is under way its entry holds the handle it read until update_tint stores the new one)
OnlyUpdatesRaced ==
    /\ ~glassAvail
    /\ popped = {}
    /\ Cardinality({v \in 1..Len(nsviews) : nsviews[v].class \in {"NSGlassEffectView", "NSVisualEffectView"}}) = 1

\* C32 as stated: on the fallback backend, under any interleaving of concurrent updates of the
\* same window, an overlay handle in the window's registry entry is attached as a subview of the
\* entry's glass view; a tinted update racing with a tint-clearing update never leaves the
\* registry referencing a detached overlay.
C32_Original ==
    (OnlyUpdatesRaced /\ AllIdle) =>
        \A e \in views : e.tint_overlay # NoHandle => nsviews[e.tint_overlay].superview = e.glass_view

\* C33 as stated: on the fallback backend, under any interleaving of concurrent tinted updates of
\* a window whose entry has no overlay yet, at most one overlay is attached to the glass view and
\* every attached overlay is the one the registry entry records.
C33_Original ==
    OnlyUpdatesRaced =>
        \A e \in views :
            /\ Cardinality(OverlaysOn(nsviews, e.glass_view)) <= 1
            /\ AllIdle => OverlaysOn(nsviews, e.glass_view) \subseteq {e.tint_overlay}

\* ------------------------------------------------------------------------
\* C34: a create that fails
\* ------------------------------------------------------------------------

\* what create_glass_effect returns to a thread that leaves run_on_main_sync: the closure's error,
\* or the outcome of registry.insert
CreateReturns(t) ==
    IF chan[t][1].status # "Ok" THEN chan[t][1].status
    ELSE IF poisoned THEN lock_failed ELSE "Ok"

\* the step in which create_glass_effect returns an error after its closure has run
CreateFails(t) ==
    /\ th[t].pc = "create_wait"
    /\ th'[t].pc = "idle"
    /\ CreateReturns(t) \in {"WindowNotFound", "ViewCreationFailed", "RegistryLockFailed"}

\* the views the closure of the failing create handed back are neither attached nor registered
C34_Step ==
    \A t \in Threads : CreateFails(t) =>
        \A h \in {chan[t][1].glass, chan[t][1].tint} \ {NoHandle} :
            /\ nsviews'[h].superview = NoHandle
            /\ \A e \in views' : e.glass_view # h /\ e.tint_overlay # h

\* C34 as stated: a create that returns an error (WindowNotFound, ViewCreationFailed or
\* RegistryLockFailed) leaves no trace: no registry entry of the call and no effect view or
\* overlay created by the call attached to the window.
C34_Original == [][C34_Step]_vars

\* ------------------------------------------------------------------------
\* C35: WindowNotFound from an enabling call
\* ------------------------------------------------------------------------

\* the step in which an enabling set_liquid_glass_effect returns WindowNotFound: from
\* create_glass_effect when window.ns_window() fails, from update_glass_effect when registry.get
\* finds no entry
ReturnsWindowNotFound(t) ==
    /\ th[t].config.enabled
    /\ th[t].pc \in {"create_start", "get"}
    /\ th'[t].pc = "idle"

\* C35 as stated: set_effect(enabled = true) fails with WindowNotFound only when the native
\* reference of the window cannot be obtained; a concurrent disable that pops the entry between
\* the enable's contains and its get never makes the enable return WindowNotFound for a window
\* that exists.
C35_Original == [][\A t \in Threads : ReturnsWindowNotFound(t) => ~ns_window(th[t].label)]_vars

\* ------------------------------------------------------------------------
\* C36: glass_effect/ and macos/glass_effect.rs
\* ------------------------------------------------------------------------

\* both implementations have been given the same calls
C36_BothRan == AllIdle /\ last.solo /\ last.label = "aux"

\* the calls since the last disable took the same paths and returned the same results
SameResults(a, b) ==
    /\ run[a].broken = run[b].broken
    /\ run[a].paths = run[b].paths
    /\ run[a].results = run[b].results
    /\ run[a].afterRemove = run[b].afterRemove

====
